---- MODULE Spec2Model ----
(***************************************************************************)
(* Collection / media authorization engine of the watch-list backend.      *)
(*                                                                         *)
(* The store is the relational database behind Prisma: four tables kept as *)
(* sets of rows.  Every service method is an operator from a store (and    *)
(* its arguments) to a result [status, db]; the actions apply them.        *)
(* Strings that are searched or split (names, tags, q) are tuples of       *)
(* one-character strings.                                                  *)
(***************************************************************************)
EXTENDS Integers, Sequences, FiniteSets, TLC

VARIABLES collections, media, collectionMedia, collectionUsers, nextId, reqs

vars == <<collections, media, collectionMedia, collectionUsers, nextId, reqs>>

dbvars == <<collections, media, collectionMedia, collectionUsers, nextId>>

\* ------------------------------------------------------------------ bounds
MaxCollections == 1
MaxMedia == 1
MaxCollectionMedia == 2
MaxCollectionUsers == 2
MaxConcCollections == 2
MaxConcMedia == 2
MaxPosition == 1

\* ------------------------------------------------------------ enumerations
Users == {"u1", "u2"}
NoUser == "anonymous"
GhostUser == "ghost"
Callers == Users \cup {NoUser}

PUBLIC == "PUBLIC"
PRIVATE == "PRIVATE"
Visibility == {PUBLIC, PRIVATE}

OWNER == "OWNER"
COLLABORATOR == "COLLABORATOR"
READER == "READER"
CollectionRole == {OWNER, COLLABORATOR, READER}

NoId == 0
Null == <<>>
NoType == ""

DefaultName == <<"D", "e", "f">>
DefaultDescription == <<"D", "e", "f", " ", "c">>

Positions == 0..MaxPosition

\* ------------------------------------------------------------------ store
DB ==
  [collections |-> collections, media |-> media,
   collectionMedia |-> collectionMedia, collectionUsers |-> collectionUsers,
   nextId |-> nextId]

EmptyDB ==
  [collections |-> {}, media |-> {}, collectionMedia |-> {},
   collectionUsers |-> {},
   nextId |-> [collection |-> 1, media |-> 1, collectionMedia |-> 1, collectionUser |-> 1]]

Commit(d) ==
  /\ collections' = d.collections
  /\ media' = d.media
  /\ collectionMedia' = d.collectionMedia
  /\ collectionUsers' = d.collectionUsers
  /\ nextId' = d.nextId

Result(status, d) == [status |-> status, db |-> d]

\* Rows of the tables by key (findUnique / findFirst on the store).
CollectionById(d, id) == {c \in d.collections : c.id = id}

MediaById(d, id) == {m \in d.media : m.id = id}

CollectionMediaById(d, id) == {r \in d.collectionMedia : r.id = id}

CollectionMediaByPair(d, collectionId, mediaId) ==
  {r \in d.collectionMedia : r.collectionId = collectionId /\ r.mediaId = mediaId}

CollectionUserById(d, id) == {r \in d.collectionUsers : r.id = id}

CollectionUserByPair(d, collectionId, userId) ==
  {r \in d.collectionUsers : r.collectionId = collectionId /\ r.userId = userId}

\* INSERT into collection_media: both foreign keys and the unique index
\* (collectionId, mediaId) are enforced by the database.
CollectionMediaInsertOk(d, collectionId, mediaId) ==
  /\ CollectionById(d, collectionId) # {}
  /\ MediaById(d, mediaId) # {}
  /\ CollectionMediaByPair(d, collectionId, mediaId) = {}

CollectionMediaInsert(d, collectionId, mediaId, position) ==
  [d EXCEPT
     !.collectionMedia = @ \cup
        {[id |-> d.nextId.collectionMedia, collectionId |-> collectionId,
          mediaId |-> mediaId, position |-> position]},
     !.nextId.collectionMedia = @ + 1]

\* Variant: collection_users without its unique index.
CollectionUserInsertOkNoIndex(d, collectionId, userId) ==
  /\ CollectionById(d, collectionId) # {}
  /\ userId \in Users

\* INSERT into collection_users: foreign keys and the unique index
\* (collectionId, userId); role as given, accepted defaults to false.
CollectionUserInsertOk(d, collectionId, userId) ==
  /\ CollectionById(d, collectionId) # {}
  /\ userId \in Users
  /\ CollectionUserByPair(d, collectionId, userId) = {}

CollectionUserInsert(d, collectionId, userId, role) ==
  [d EXCEPT
     !.collectionUsers = @ \cup
        {[id |-> d.nextId.collectionUser, collectionId |-> collectionId,
          userId |-> userId, role |-> role, accepted |-> FALSE]},
     !.nextId.collectionUser = @ + 1]

\* Variant: foreign keys without ON DELETE CASCADE.
CollectionDeleteNoCascade(d, id) ==
  [d EXCEPT !.collections = {c \in @ : c.id # id}]

\* DELETE of a collection cascades to its collection_media and
\* collection_users rows (ON DELETE CASCADE).
CollectionDelete(d, id) ==
  [d EXCEPT
     !.collections = {c \in @ : c.id # id},
     !.collectionMedia = {r \in @ : r.collectionId # id},
     !.collectionUsers = {r \in @ : r.collectionId # id}]

\* UPDATE of a row with a partial record of new field values.
ApplyUpdate(row, data) ==
  [f \in DOMAIN row |-> IF f \in DOMAIN data THEN data[f] ELSE row[f]]

\* ------------------------------------------------------- string helpers
\* String.prototype.toLowerCase on the alphabet used here.
Lower(ch) ==
  CASE ch = "D" -> "d"
    [] ch = "F" -> "f"
    [] OTHER -> ch

\* Prisma { contains: q, mode: 'insensitive' }; a NULL column never matches.
ContainsInsensitive(s, q) ==
  /\ s # Null
  /\ \E i \in 1..(Len(s) - Len(q) + 1) :
        \A j \in 1..Len(q) : Lower(s[i + j - 1]) = Lower(q[j])

RECURSIVE SplitFrom(_, _, _)
SplitFrom(s, i, cur) ==
  IF i > Len(s) THEN <<cur>>
  ELSE IF s[i] = "," THEN <<cur>> \o SplitFrom(s, i + 1, <<>>)
  ELSE SplitFrom(s, i + 1, Append(cur, s[i]))

Split(s) == SplitFrom(s, 1, <<>>)

RECURSIVE TrimStart(_)
TrimStart(s) == IF s # <<>> /\ Head(s) = " " THEN TrimStart(Tail(s)) ELSE s

RECURSIVE TrimEnd(_)
TrimEnd(s) ==
  IF s # <<>> /\ s[Len(s)] = " " THEN TrimEnd(SubSeq(s, 1, Len(s) - 1)) ELSE s

Trim(s) == TrimEnd(TrimStart(s))

RECURSIVE SelectNonEmpty(_)
SelectNonEmpty(xs) ==
  IF xs = <<>> THEN <<>>
  ELSE IF Head(xs) # <<>> THEN <<Head(xs)>> \o SelectNonEmpty(Tail(xs))
  ELSE SelectNonEmpty(Tail(xs))

parseCommaSeparated(commaSeparated, single) ==
  IF commaSeparated # Null
    THEN SelectNonEmpty([i \in 1..Len(Split(commaSeparated)) |-> Trim(Split(commaSeparated)[i])])
  ELSE IF single # Null THEN <<single>>
  ELSE <<>>

Range(xs) == {xs[i] : i \in 1..Len(xs)}

\* ------------------------------------------------- collection service reads
\* Filter part of the where clause: a record holding only the keys set.
buildWhereClause(query) ==
  LET tagList == parseCommaSeparated(query.tags, query.tag)
      keys == (IF Len(tagList) > 0 THEN {"tags"} ELSE {})
                \cup (IF query.q # Null THEN {"OR"} ELSE {})
  IN  [k \in keys |-> IF k = "tags" THEN Range(tagList) ELSE query.q]

MatchesCollectionWhere(where, c) ==
  /\ "tags" \in DOMAIN where => (c.tags \cap where["tags"]) # {}
  /\ "OR" \in DOMAIN where =>
        \/ ContainsInsensitive(c.name, where["OR"])
        \/ ContainsInsensitive(c.description, where["OR"])

\* Variant without the acceptance gate: any membership row gives read access.
buildAccessWhereUngated(d, userId, c) ==
  \/ c.visibility = PUBLIC
  \/ /\ userId # NoUser
     /\ \/ c.ownerId = userId
        \/ \E m \in d.collectionUsers : m.collectionId = c.id /\ m.userId = userId

\* Visibility predicate of the collection service, as a predicate on a row.
buildAccessWhere(d, userId, c) ==
  \/ c.visibility = PUBLIC
  \/ /\ userId # NoUser
     /\ \/ c.ownerId = userId
        \/ \E m \in d.collectionUsers :
              m.collectionId = c.id /\ m.userId = userId /\ m.accepted

\* Rows selected by the where clause of listCollections (before paging).
listCollectionsWhere(d, query, userId) ==
  LET filterWhere == buildWhereClause(query)
  IN  {c \in d.collections :
         /\ DOMAIN filterWhere # {} => MatchesCollectionWhere(filterWhere, c)
         /\ buildAccessWhere(d, userId, c)}

\* findFirst: the set is empty (null) or holds the one row with this id.
getById(d, id, userId) ==
  {c \in d.collections : c.id = id /\ buildAccessWhere(d, userId, c)}

\* --------------------------------------------------- access policy check
NoError == 0

\* Variant without the acceptance gate: every membership row counts.
requireCollectionRoleUngated(d, collectionId, userId, allowedRoles) ==
  LET found == CollectionById(d, collectionId)
      members == {m \in d.collectionUsers :
                    m.collectionId = collectionId /\ m.userId = userId}
      roles == {m.role : m \in members}
      hasRole == \E role \in roles : role \in allowedRoles
  IN  IF found = {} THEN 404
      ELSE IF (\E c \in found : c.ownerId = userId) /\ OWNER \in allowedRoles THEN NoError
      ELSE IF ~hasRole THEN 403
      ELSE NoError

\* Variant that looks at the roles before it looks at the collection.
requireCollectionRoleRoleFirst(d, collectionId, userId, allowedRoles) ==
  LET found == CollectionById(d, collectionId)
      members == {m \in d.collectionUsers :
                    m.collectionId = collectionId /\ m.userId = userId /\ m.accepted}
      roles == {m.role : m \in members}
      hasRole == \E role \in roles : role \in allowedRoles
  IN  IF (\E c \in found : c.ownerId = userId) /\ OWNER \in allowedRoles THEN NoError
      ELSE IF ~hasRole THEN 403
      ELSE IF found = {} THEN 404
      ELSE NoError

requireCollectionRole(d, collectionId, userId, allowedRoles) ==
  LET found == CollectionById(d, collectionId)
      members == {m \in d.collectionUsers :
                    m.collectionId = collectionId /\ m.userId = userId /\ m.accepted}
      roles == {m.role : m \in members}
      hasRole == \E role \in roles : role \in allowedRoles
  IN  IF found = {} THEN 404
      ELSE IF (\E c \in found : c.ownerId = userId) /\ OWNER \in allowedRoles THEN NoError
      ELSE IF ~hasRole THEN 403
      ELSE NoError

\* ------------------------------------------------ collection service writes
\* Each operator returns Result(status, db'): the HTTP status of the route
\* that calls the method and the store after the call.
createCollection(d, data, userId) ==
  Result(201,
    [d EXCEPT
       !.collections = @ \cup
          {[id |-> d.nextId.collection, ownerId |-> userId,
            visibility |-> data.visibility, name |-> data.name,
            description |-> data.description, tags |-> data.tags]},
       !.nextId.collection = @ + 1])

\* Variant that lets collaborators update the collection.
updateByIdCollaborator(d, id, data, userId) ==
  LET denied == requireCollectionRole(d, id, userId, {OWNER, COLLABORATOR})
  IN  IF denied # NoError THEN Result(denied, d)
      ELSE Result(200,
             [d EXCEPT !.collections =
                {IF c.id = id THEN ApplyUpdate(c, data) ELSE c : c \in @}])

updateById(d, id, data, userId) ==
  LET denied == requireCollectionRole(d, id, userId, {OWNER})
  IN  IF denied # NoError THEN Result(denied, d)
      ELSE Result(200,
             [d EXCEPT !.collections =
                {IF c.id = id THEN ApplyUpdate(c, data) ELSE c : c \in @}])

deleteById(d, id, userId) ==
  LET denied == requireCollectionRole(d, id, userId, {OWNER})
  IN  IF denied # NoError THEN Result(denied, d)
      ELSE Result(200, CollectionDelete(d, id))

\* addMediaToCollection up to and including the findUnique of the pair:
\* the error thrown, or NoError when the method goes on to the insert.
addMediaToCollectionCheck(d, collectionId, mediaId, userId) ==
  LET denied == requireCollectionRole(d, collectionId, userId, {OWNER, COLLABORATOR})
  IN  IF denied # NoError THEN denied
      ELSE IF MediaById(d, mediaId) = {} THEN 404
      ELSE IF CollectionMediaByPair(d, collectionId, mediaId) # {} THEN 400
      ELSE NoError

\* The insert of addMediaToCollection: a constraint violation is not an
\* AppError, so the catch block rethrows it as 500.
addMediaToCollectionCreate(d, collectionId, mediaId, position) ==
  IF CollectionMediaInsertOk(d, collectionId, mediaId)
    THEN Result(201, CollectionMediaInsert(d, collectionId, mediaId, position))
  ELSE Result(500, d)

addMediaToCollection(d, collectionId, mediaId, position, userId) ==
  LET thrown == addMediaToCollectionCheck(d, collectionId, mediaId, userId)
  IN  IF thrown # NoError THEN Result(thrown, d)
      ELSE addMediaToCollectionCreate(d, collectionId, mediaId, position)

\* Variant that lets every accepted member update the rows of the collection.
updateCollectionMediaAnyMember(d, collectionId, collectionMediaId, data, userId) ==
  LET denied == requireCollectionRole(d, collectionId, userId, CollectionRole)
      existing == CollectionMediaById(d, collectionMediaId)
  IN  IF denied # NoError THEN Result(denied, d)
      ELSE IF existing = {} THEN Result(404, d)
      ELSE IF \E r \in existing : r.collectionId # collectionId THEN Result(404, d)
      ELSE Result(200,
             [d EXCEPT !.collectionMedia =
                {IF r.id = collectionMediaId THEN ApplyUpdate(r, data) ELSE r : r \in @}])

updateCollectionMedia(d, collectionId, collectionMediaId, data, userId) ==
  LET denied == requireCollectionRole(d, collectionId, userId, {OWNER, COLLABORATOR})
      existing == CollectionMediaById(d, collectionMediaId)
  IN  IF denied # NoError THEN Result(denied, d)
      ELSE IF existing = {} THEN Result(404, d)
      ELSE IF \E r \in existing : r.collectionId # collectionId THEN Result(404, d)
      ELSE Result(200,
             [d EXCEPT !.collectionMedia =
                {IF r.id = collectionMediaId THEN ApplyUpdate(r, data) ELSE r : r \in @}])

removeMediaFromCollection(d, collectionId, collectionMediaId, userId) ==
  LET denied == requireCollectionRole(d, collectionId, userId, {OWNER, COLLABORATOR})
      existing == CollectionMediaById(d, collectionMediaId)
  IN  IF denied # NoError THEN Result(denied, d)
      ELSE IF existing = {} THEN Result(404, d)
      ELSE IF \E r \in existing : r.collectionId # collectionId THEN Result(404, d)
      ELSE Result(200,
             [d EXCEPT !.collectionMedia = {r \in @ : r.id # collectionMediaId}])

\* Variant that takes only an accepted row for a conflict.
addMemberToCollectionCheckAcceptedOnly(d, collectionId, memberUserId, userId) ==
  LET denied == requireCollectionRole(d, collectionId, userId, {OWNER})
  IN  IF denied # NoError THEN denied
      ELSE IF memberUserId \notin Users THEN 404
      ELSE IF \E r \in CollectionUserByPair(d, collectionId, memberUserId) : r.accepted THEN 400
      ELSE NoError

addMemberToCollectionCheck(d, collectionId, memberUserId, userId) ==
  LET denied == requireCollectionRole(d, collectionId, userId, {OWNER})
  IN  IF denied # NoError THEN denied
      ELSE IF memberUserId \notin Users THEN 404
      ELSE IF CollectionUserByPair(d, collectionId, memberUserId) # {} THEN 400
      ELSE NoError

addMemberToCollectionCreate(d, collectionId, memberUserId, role) ==
  IF CollectionUserInsertOk(d, collectionId, memberUserId)
    THEN Result(201, CollectionUserInsert(d, collectionId, memberUserId, role))
  ELSE Result(500, d)

addMemberToCollection(d, collectionId, memberUserId, role, userId) ==
  LET thrown == addMemberToCollectionCheck(d, collectionId, memberUserId, userId)
  IN  IF thrown # NoError THEN Result(thrown, d)
      ELSE addMemberToCollectionCreate(d, collectionId, memberUserId, role)

updateCollectionMember(d, collectionId, memberId, data, userId) ==
  LET denied == requireCollectionRole(d, collectionId, userId, {OWNER})
      existing == CollectionUserById(d, memberId)
  IN  IF denied # NoError THEN Result(denied, d)
      ELSE IF existing = {} THEN Result(404, d)
      ELSE IF \E r \in existing : r.collectionId # collectionId THEN Result(404, d)
      ELSE Result(200,
             [d EXCEPT !.collectionUsers =
                {IF r.id = memberId THEN ApplyUpdate(r, data) ELSE r : r \in @}])

\* Earlier variant: deletes the row by id without looking at its collection.
removeMemberFromCollectionAnyRow(d, collectionId, memberId, userId) ==
  LET denied == requireCollectionRole(d, collectionId, userId, {OWNER})
      existing == CollectionUserById(d, memberId)
  IN  IF denied # NoError THEN Result(denied, d)
      ELSE IF existing = {} THEN Result(404, d)
      ELSE Result(200,
             [d EXCEPT !.collectionUsers = {r \in @ : r.id # memberId}])

removeMemberFromCollection(d, collectionId, memberId, userId) ==
  LET denied == requireCollectionRole(d, collectionId, userId, {OWNER})
      existing == CollectionUserById(d, memberId)
  IN  IF denied # NoError THEN Result(denied, d)
      ELSE IF existing = {} THEN Result(404, d)
      ELSE IF \E r \in existing : r.collectionId # collectionId THEN Result(404, d)
      ELSE Result(200,
             [d EXCEPT !.collectionUsers = {r \in @ : r.id # memberId}])

listCollectionMedia(d, collectionId, userId) ==
  IF getById(d, collectionId, userId) = {} THEN 404 ELSE 200

listCollectionMembers(d, collectionId, userId) ==
  IF getById(d, collectionId, userId) = {} THEN 404 ELSE 200

\* Rows returned by listUserInvitations.
listUserInvitations(d, userId) ==
  {r \in d.collectionUsers : r.userId = userId /\ ~r.accepted}

\* Variant that answers an accepted invitation like a pending one.
respondToInvitationAgain(d, collectionId, userId, accept) ==
  LET invitation == CollectionUserByPair(d, collectionId, userId)
  IN  IF invitation = {} THEN Result(404, d)
      ELSE IF accept
        THEN Result(200,
               [d EXCEPT !.collectionUsers =
                  {IF r.collectionId = collectionId /\ r.userId = userId
                     THEN [r EXCEPT !.accepted = TRUE] ELSE r : r \in @}])
      ELSE Result(200,
             [d EXCEPT !.collectionUsers =
                {r \in @ : ~(r.collectionId = collectionId /\ r.userId = userId)}])

\* Variant that keeps the row of a rejected invitation.
respondToInvitationKeepsRow(d, collectionId, userId, accept) ==
  LET invitation == CollectionUserByPair(d, collectionId, userId)
  IN  IF invitation = {} THEN Result(404, d)
      ELSE IF \E r \in invitation : r.accepted THEN Result(400, d)
      ELSE IF accept
        THEN Result(200,
               [d EXCEPT !.collectionUsers =
                  {IF r.collectionId = collectionId /\ r.userId = userId
                     THEN [r EXCEPT !.accepted = TRUE] ELSE r : r \in @}])
      ELSE Result(200, d)

\* 200 stands for a normal return (the updated row on accept, null on reject).
respondToInvitation(d, collectionId, userId, accept) ==
  LET invitation == CollectionUserByPair(d, collectionId, userId)
  IN  IF invitation = {} THEN Result(404, d)
      ELSE IF \E r \in invitation : r.accepted THEN Result(400, d)
      ELSE IF accept
        THEN Result(200,
               [d EXCEPT !.collectionUsers =
                  {IF r.collectionId = collectionId /\ r.userId = userId
                     THEN [r EXCEPT !.accepted = TRUE] ELSE r : r \in @}])
      ELSE Result(200,
             [d EXCEPT !.collectionUsers =
                {r \in @ : ~(r.collectionId = collectionId /\ r.userId = userId)}])

\* ------------------------------------------------------------ media service
mediaBuildWhereClause(query) ==
  LET tagList == parseCommaSeparated(query.tags, query.tag)
      platformList == parseCommaSeparated(query.platforms, query.platform)
      keys == (IF query.type # NoType THEN {"type"} ELSE {})
                \cup (IF Len(tagList) > 0 THEN {"tags"} ELSE {})
                \cup (IF Len(platformList) > 0 THEN {"platforms"} ELSE {})
                \cup (IF query.q # Null THEN {"OR"} ELSE {})
  IN  [k \in keys |->
         CASE k = "type" -> query.type
           [] k = "tags" -> Range(tagList)
           [] k = "platforms" -> Range(platformList)
           [] OTHER -> query.q]

MatchesMediaWhere(where, m) ==
  /\ "type" \in DOMAIN where => m.type = where["type"]
  /\ "tags" \in DOMAIN where => (m.tags \cap where["tags"]) # {}
  /\ "platforms" \in DOMAIN where => (m.platforms \cap where["platforms"]) # {}
  /\ "OR" \in DOMAIN where =>
        \/ ContainsInsensitive(m.title, where["OR"])
        \/ ContainsInsensitive(m.description, where["OR"])

\* Visibility predicate of the media service, as a predicate on a media row:
\* some collection holding the media is public, or owned by the caller, or
\* has a membership row of the caller.
mediaBuildAccessWhere(d, userId, m) ==
  \/ \E link \in d.collectionMedia : \E c \in d.collections :
        link.mediaId = m.id /\ c.id = link.collectionId /\ c.visibility = PUBLIC
  \/ /\ userId # NoUser
     /\ \E link \in d.collectionMedia : \E c \in d.collections :
           /\ link.mediaId = m.id /\ c.id = link.collectionId
           /\ \/ c.ownerId = userId
              \/ \E cu \in d.collectionUsers :
                    cu.collectionId = c.id /\ cu.userId = userId

listMediaWhere(d, query, userId) ==
  LET filterWhere == mediaBuildWhereClause(query)
  IN  {m \in d.media :
         /\ DOMAIN filterWhere # {} => MatchesMediaWhere(filterWhere, m)
         /\ mediaBuildAccessWhere(d, userId, m)}

mediaGetById(d, id, userId) ==
  {m \in d.media : m.id = id /\ mediaBuildAccessWhere(d, userId, m)}

\* Collections findFirst may return for { ownerId, name: 'Default' }.
DefaultCollections(d, userId) ==
  {c \in d.collections : c.ownerId = userId /\ c.name = DefaultName}

DefaultCollectionInsert(d, userId) ==
  [d EXCEPT
     !.collections = @ \cup
        {[id |-> d.nextId.collection, ownerId |-> userId, visibility |-> PRIVATE,
          name |-> DefaultName, description |-> DefaultDescription, tags |-> {}]},
     !.nextId.collection = @ + 1]

\* pick is the row findFirst returns when there are several (no orderBy).
getOrCreateDefaultCollection(d, userId, pick) ==
  IF DefaultCollections(d, userId) # {}
    THEN [status |-> NoError, id |-> pick, db |-> d]
  ELSE [status |-> NoError, id |-> d.nextId.collection,
        db |-> DefaultCollectionInsert(d, userId)]

getCollectionForCreate(d, userId, collectionId, pick) ==
  IF collectionId # NoId
    THEN LET found == CollectionById(d, collectionId)
             members == {cu \in d.collectionUsers :
                           cu.collectionId = collectionId /\ cu.userId = userId}
             isOwner == \E c \in found : c.ownerId = userId
             hasRole == \E cu \in members : cu.role \in {OWNER, COLLABORATOR}
         IN  IF found = {} THEN [status |-> 404, id |-> NoId, db |-> d]
             ELSE IF ~isOwner /\ ~hasRole THEN [status |-> 403, id |-> NoId, db |-> d]
             ELSE [status |-> NoError, id |-> collectionId, db |-> d]
  ELSE getOrCreateDefaultCollection(d, userId, pick)

\* prisma.$transaction: the media insert and its first link commit together
\* or not at all; a failed link insert surfaces as 500.
createMediaTransaction(d, data, collectionId) ==
  LET mediaId == d.nextId.media
      withMedia == [d EXCEPT
                      !.media = @ \cup
                         {[id |-> mediaId, title |-> data.title,
                           description |-> data.description, type |-> data.type,
                           tags |-> data.tags, platforms |-> data.platforms]},
                      !.nextId.media = @ + 1]
  IN  IF CollectionMediaInsertOk(withMedia, collectionId, mediaId)
        THEN Result(201, CollectionMediaInsert(withMedia, collectionId, mediaId, 0))
      ELSE Result(500, d)

createMedia(d, data, userId, collectionId, pick) ==
  LET target == getCollectionForCreate(d, userId, collectionId, pick)
  IN  IF target.status # NoError THEN Result(target.status, d)
      ELSE LET done == createMediaTransaction(target.db, data, target.id)
           IN  IF done.status = 201 THEN done ELSE Result(done.status, target.db)

\* prisma.$transaction may also reject for a reason of the store (timeout,
\* lost connection): its writes are rolled back, the catch of createMedia
\* answers 500, and what getCollectionForCreate wrote before the transaction
\* began stays.
createMediaOutcomes(d, data, userId, collectionId, pick) ==
  LET target == getCollectionForCreate(d, userId, collectionId, pick)
  IN  {createMedia(d, data, userId, collectionId, pick)} \cup
      (IF target.status = NoError THEN {Result(500, target.db)} ELSE {})

requireMediaRole(d, mediaId, userId, allowedRoles) ==
  LET found == MediaById(d, mediaId)
      holders == {c \in d.collections :
                    \E link \in d.collectionMedia :
                       link.mediaId = mediaId /\ link.collectionId = c.id}
      isOwner == \E c \in holders : c.ownerId = userId
      roles == {cu.role : cu \in {x \in d.collectionUsers :
                                    x.userId = userId /\ \E c \in holders : c.id = x.collectionId}}
      hasRole == \E role \in roles : role \in allowedRoles
  IN  IF found = {} THEN 404
      ELSE IF isOwner /\ OWNER \in allowedRoles THEN NoError
      ELSE IF ~hasRole THEN 403
      ELSE NoError

mediaUpdateById(d, id, data, userId) ==
  LET denied == requireMediaRole(d, id, userId, {OWNER, COLLABORATOR})
  IN  IF denied # NoError THEN Result(denied, d)
      ELSE Result(200,
             [d EXCEPT !.media = {IF m.id = id THEN ApplyUpdate(m, data) ELSE m : m \in @}])

\* DELETE of a media row cascades to its collection_media rows.
mediaDeleteById(d, id, userId) ==
  LET denied == requireMediaRole(d, id, userId, {OWNER})
  IN  IF denied # NoError THEN Result(denied, d)
      ELSE Result(200,
             [d EXCEPT !.media = {m \in @ : m.id # id},
                       !.collectionMedia = {r \in @ : r.mediaId # id}])

\* ------------------------------------------------------------------ routes
\* The PATCH handlers of collection.routes.ts and media.routes.ts.  A request
\* carries the session user (NoUser when there is no session) and a JSON body
\* that the route's validator accepts (wellFormed) or refuses with 400 before
\* the handler runs; data holds the fields present in an accepted body.
EmptyPayload == [f \in {} |-> 0]

patchCollection(d, sessionUser, collectionId, body) ==
  IF ~body.wellFormed THEN Result(400, d)
  ELSE IF sessionUser = NoUser THEN Result(401, d)
  ELSE IF DOMAIN body.data = {} THEN Result(400, d)
  ELSE updateById(d, collectionId, body.data, sessionUser)

patchCollectionMedia(d, sessionUser, collectionId, collectionMediaId, body) ==
  IF ~body.wellFormed THEN Result(400, d)
  ELSE IF sessionUser = NoUser THEN Result(401, d)
  ELSE updateCollectionMedia(d, collectionId, collectionMediaId, body.data, sessionUser)

patchCollectionMember(d, sessionUser, collectionId, memberId, body) ==
  IF ~body.wellFormed THEN Result(400, d)
  ELSE IF sessionUser = NoUser THEN Result(401, d)
  ELSE updateCollectionMember(d, collectionId, memberId, body.data, sessionUser)

\* The media routes chain .catch(() => { throw new AppError(..., 500) }) to
\* the service call: whatever the service throws, an AppError of the role
\* check included, leaves the route as 500.
CatchAll(r, d) == IF r.status = 200 THEN r ELSE Result(500, d)

patchMedia(d, sessionUser, mediaId, body) ==
  IF ~body.wellFormed THEN Result(400, d)
  ELSE IF sessionUser = NoUser THEN Result(401, d)
  ELSE IF DOMAIN body.data = {} THEN Result(400, d)
  ELSE CatchAll(mediaUpdateById(d, mediaId, body.data, sessionUser), d)

deleteMedia(d, sessionUser, mediaId) ==
  IF sessionUser = NoUser THEN Result(401, d)
  ELSE CatchAll(mediaDeleteById(d, mediaId, sessionUser), d)

\* The DELETE handlers of collection.routes.ts.
deleteCollection(d, sessionUser, collectionId) ==
  IF sessionUser = NoUser THEN Result(401, d)
  ELSE deleteById(d, collectionId, sessionUser)

deleteCollectionMedia(d, sessionUser, collectionId, collectionMediaId) ==
  IF sessionUser = NoUser THEN Result(401, d)
  ELSE removeMediaFromCollection(d, collectionId, collectionMediaId, sessionUser)

deleteCollectionMember(d, sessionUser, collectionId, memberId) ==
  IF sessionUser = NoUser THEN Result(401, d)
  ELSE removeMemberFromCollection(d, collectionId, memberId, sessionUser)

\* A storage call of the service may throw what is not an AppError.  The
\* update and delete operations of both services catch it and return null
\* or false, nothing is written, and the PATCH and DELETE routes answer a
\* null or false with 404.  r is the answer without the exception: a request
\* answered 401 or 400 by the route never reached the service.
OnStoreException(r, d) ==
  IF r.status \in {400, 401} THEN {} ELSE {Result(404, d)}

Outcomes(r, d) == {r} \cup OnStoreException(r, d)

\* ------------------------------------------------------------------ inputs
FilmsName == <<"F", "i">>
FilmsDescription == <<"d", "e", "f">>
TagA == <<"a">>
TagB == <<"b">>

CollectionInputs ==
  {[name |-> FilmsName, description |-> FilmsDescription, tags |-> {TagA, TagB},
    visibility |-> v] : v \in Visibility}

UpdateCollectionInputs == {[visibility |-> v] : v \in Visibility}

UpdateCollectionMediaInputs == {[position |-> p] : p \in Positions}

UpdateMediaInputs == {[type |-> "FILM"], [type |-> "BOOK"]}

\* Request bodies of a PATCH route: a well-formed body with some of the
\* fields, one with none, and one the validator refuses.
Bodies(inputs) ==
  {[wellFormed |-> TRUE, data |-> data] : data \in inputs \cup {EmptyPayload}}
  \cup {[wellFormed |-> FALSE, data |-> EmptyPayload]}

UpdateCollectionMemberInputs ==
  {[role |-> r] : r \in CollectionRole} \cup {[accepted |-> b] : b \in BOOLEAN}

MediaInputs ==
  {[title |-> <<"D", "u">>, description |-> Null, type |-> "FILM",
    tags |-> {TagA}, platforms |-> {<<"n">>}],
   [title |-> <<"f", "i">>, description |-> <<"d", "u">>, type |-> "BOOK",
    tags |-> {TagB}, platforms |-> {}]}

\* Query strings of the list routes: absent parameters are Null.
NoQuery == [type |-> NoType, tag |-> Null, tags |-> Null, platform |-> Null,
            platforms |-> Null, q |-> Null]

CollectionQueries ==
  {NoQuery,
   [NoQuery EXCEPT !.tag = TagA],
   [NoQuery EXCEPT !.tag = TagA, !.tags = <<"c", ",", " ", "b">>],
   [NoQuery EXCEPT !.tags = <<",", " ">>],
   [NoQuery EXCEPT !.q = <<"F">>],
   [NoQuery EXCEPT !.q = <<"E", "f">>, !.tags = <<"c">>]}

MediaQueries ==
  {NoQuery,
   [NoQuery EXCEPT !.type = "FILM"],
   [NoQuery EXCEPT !.tag = TagB, !.tags = <<"a", ",">>],
   [NoQuery EXCEPT !.platform = <<"n">>],
   [NoQuery EXCEPT !.platforms = <<" ", "n", " ">>, !.type = "BOOK"],
   [NoQuery EXCEPT !.q = <<"d", "U">>]}

\* The ids findFirst may return for the caller's 'Default' collection.
DefaultPicks(d, userId) ==
  IF DefaultCollections(d, userId) = {} THEN {NoId}
  ELSE {c.id : c \in DefaultCollections(d, userId)}

CollectionIds == 1..MaxCollections
MediaIds == 1..MaxMedia
CollectionMediaIds == 1..MaxCollectionMedia
CollectionUserIds == 1..MaxCollectionUsers

\* uuid generation is unbounded; the model stops creating rows at the bounds.
WithinBounds(d) ==
  /\ d.nextId.collection <= MaxCollections + 1
  /\ d.nextId.media <= MaxMedia + 1
  /\ d.nextId.collectionMedia <= MaxCollectionMedia + 1
  /\ d.nextId.collectionUser <= MaxCollectionUsers + 1

NoReqs == <<>>

\* ---------------------------------------------------------------- behaviour
\* The service is stateless: a request changes the store or nothing at all,
\* so reads and refused requests are steps that leave every variable as is.
Init ==
  /\ collections = {}
  /\ media = {}
  /\ collectionMedia = {}
  /\ collectionUsers = {}
  /\ nextId = EmptyDB.nextId
  /\ reqs = NoReqs

CreateCollection ==
  \E userId \in Users, data \in CollectionInputs :
    LET r == createCollection(DB, data, userId)
    IN  /\ WithinBounds(r.db)
        /\ Commit(r.db)
        /\ UNCHANGED reqs

GetById ==
  \E userId \in Callers, id \in CollectionIds :
    /\ getById(DB, id, userId) \subseteq collections
    /\ UNCHANGED vars

ListCollections ==
  \E userId \in Callers, query \in CollectionQueries :
    /\ listCollectionsWhere(DB, query, userId) \subseteq collections
    /\ UNCHANGED vars

UpdateById ==
  \E userId \in Users, id \in CollectionIds, data \in UpdateCollectionInputs :
    LET r == updateById(DB, id, data, userId)
    IN  /\ WithinBounds(r.db)
        /\ Commit(r.db)
        /\ UNCHANGED reqs

DeleteById ==
  \E userId \in Users, id \in CollectionIds :
    LET r == deleteById(DB, id, userId)
    IN  /\ WithinBounds(r.db)
        /\ Commit(r.db)
        /\ UNCHANGED reqs

AddMediaToCollection ==
  \E userId \in Users, id \in CollectionIds, mediaId \in MediaIds, position \in Positions :
    LET r == addMediaToCollection(DB, id, mediaId, position, userId)
    IN  /\ WithinBounds(r.db)
        /\ Commit(r.db)
        /\ UNCHANGED reqs

UpdateCollectionMedia ==
  \E userId \in Users, id \in CollectionIds, rowId \in CollectionMediaIds,
     data \in UpdateCollectionMediaInputs :
    LET r == updateCollectionMedia(DB, id, rowId, data, userId)
    IN  /\ WithinBounds(r.db)
        /\ Commit(r.db)
        /\ UNCHANGED reqs

RemoveMediaFromCollection ==
  \E userId \in Users, id \in CollectionIds, rowId \in CollectionMediaIds :
    LET r == removeMediaFromCollection(DB, id, rowId, userId)
    IN  /\ WithinBounds(r.db)
        /\ Commit(r.db)
        /\ UNCHANGED reqs

AddMemberToCollection ==
  \E userId \in Users, id \in CollectionIds, memberUserId \in Users \cup {GhostUser},
     role \in CollectionRole :
    LET r == addMemberToCollection(DB, id, memberUserId, role, userId)
    IN  /\ WithinBounds(r.db)
        /\ Commit(r.db)
        /\ UNCHANGED reqs

UpdateCollectionMember ==
  \E userId \in Users, id \in CollectionIds, rowId \in CollectionUserIds,
     data \in UpdateCollectionMemberInputs :
    LET r == updateCollectionMember(DB, id, rowId, data, userId)
    IN  /\ WithinBounds(r.db)
        /\ Commit(r.db)
        /\ UNCHANGED reqs

RemoveMemberFromCollection ==
  \E userId \in Users, id \in CollectionIds, rowId \in CollectionUserIds :
    LET r == removeMemberFromCollection(DB, id, rowId, userId)
    IN  /\ WithinBounds(r.db)
        /\ Commit(r.db)
        /\ UNCHANGED reqs

RespondToInvitation ==
  \E userId \in Users, id \in CollectionIds, accept \in BOOLEAN :
    LET r == respondToInvitation(DB, id, userId, accept)
    IN  /\ WithinBounds(r.db)
        /\ Commit(r.db)
        /\ UNCHANGED reqs

CreateMedia ==
  \E userId \in Users, data \in MediaInputs, id \in CollectionIds \cup {NoId} :
    \E pick \in DefaultPicks(DB, userId) :
      \E r \in createMediaOutcomes(DB, data, userId, id, pick) :
        /\ WithinBounds(r.db)
        /\ Commit(r.db)
        /\ UNCHANGED reqs

MediaGetById ==
  \E userId \in Callers, id \in MediaIds :
    /\ mediaGetById(DB, id, userId) \subseteq media
    /\ UNCHANGED vars

ListMedia ==
  \E userId \in Callers, query \in MediaQueries :
    /\ listMediaWhere(DB, query, userId) \subseteq media
    /\ UNCHANGED vars

PatchCollection ==
  \E sessionUser \in Callers, id \in CollectionIds, body \in Bodies(UpdateCollectionInputs) :
    \E r \in Outcomes(patchCollection(DB, sessionUser, id, body), DB) :
      /\ WithinBounds(r.db)
      /\ Commit(r.db)
      /\ UNCHANGED reqs

PatchCollectionMedia ==
  \E sessionUser \in Callers, id \in CollectionIds, rowId \in CollectionMediaIds,
     body \in Bodies(UpdateCollectionMediaInputs) :
    \E r \in Outcomes(patchCollectionMedia(DB, sessionUser, id, rowId, body), DB) :
      /\ WithinBounds(r.db)
      /\ Commit(r.db)
      /\ UNCHANGED reqs

PatchCollectionMember ==
  \E sessionUser \in Callers, id \in CollectionIds, rowId \in CollectionUserIds,
     body \in Bodies(UpdateCollectionMemberInputs) :
    \E r \in Outcomes(patchCollectionMember(DB, sessionUser, id, rowId, body), DB) :
      /\ WithinBounds(r.db)
      /\ Commit(r.db)
      /\ UNCHANGED reqs

PatchMedia ==
  \E sessionUser \in Callers, id \in MediaIds, body \in Bodies(UpdateMediaInputs) :
    \E r \in Outcomes(patchMedia(DB, sessionUser, id, body), DB) :
      /\ WithinBounds(r.db)
      /\ Commit(r.db)
      /\ UNCHANGED reqs

DeleteCollection ==
  \E sessionUser \in Callers, id \in CollectionIds :
    \E r \in Outcomes(deleteCollection(DB, sessionUser, id), DB) :
      /\ WithinBounds(r.db)
      /\ Commit(r.db)
      /\ UNCHANGED reqs

DeleteCollectionMedia ==
  \E sessionUser \in Callers, id \in CollectionIds, rowId \in CollectionMediaIds :
    \E r \in Outcomes(deleteCollectionMedia(DB, sessionUser, id, rowId), DB) :
      /\ WithinBounds(r.db)
      /\ Commit(r.db)
      /\ UNCHANGED reqs

DeleteCollectionMember ==
  \E sessionUser \in Callers, id \in CollectionIds, rowId \in CollectionUserIds :
    \E r \in Outcomes(deleteCollectionMember(DB, sessionUser, id, rowId), DB) :
      /\ WithinBounds(r.db)
      /\ Commit(r.db)
      /\ UNCHANGED reqs

DeleteMedia ==
  \E sessionUser \in Callers, id \in MediaIds :
    \E r \in Outcomes(deleteMedia(DB, sessionUser, id), DB) :
      /\ WithinBounds(r.db)
      /\ Commit(r.db)
      /\ UNCHANGED reqs

Next ==
  \/ CreateCollection
  \/ GetById
  \/ ListCollections
  \/ UpdateById
  \/ DeleteById
  \/ AddMediaToCollection
  \/ UpdateCollectionMedia
  \/ RemoveMediaFromCollection
  \/ AddMemberToCollection
  \/ UpdateCollectionMember
  \/ RemoveMemberFromCollection
  \/ RespondToInvitation
  \/ CreateMedia
  \/ MediaGetById
  \/ ListMedia
  \/ PatchCollection
  \/ PatchCollectionMedia
  \/ PatchCollectionMember
  \/ PatchMedia
  \/ DeleteMedia
  \/ DeleteCollection
  \/ DeleteCollectionMedia
  \/ DeleteCollectionMember

Spec == Init /\ [][Next]_vars

\* ------------------------------------------------------------- properties
\* Argument ranges of the properties: one id past every bound, so that ids
\* that never existed are covered as well as deleted ones.
AnyCollectionId == 1..(MaxCollections + 1)
AnyMediaId == 1..(MaxMedia + 1)
AnyCollectionMediaId == 1..(MaxCollectionMedia + 1)
AnyCollectionUserId == 1..(MaxCollectionUsers + 1)

Unchanged(status, r) == r.status = status /\ r.db = DB

\* The read predicate as the specification words it.
Readable(c, caller) ==
  \/ c.visibility = PUBLIC
  \/ caller = c.ownerId
  \/ \E row \in collectionUsers :
        row.collectionId = c.id /\ row.userId = caller /\ row.accepted

PendingOn(c, u) ==
  /\ c.ownerId # u
  /\ \E row \in CollectionUserByPair(DB, c.id, u) : ~row.accepted

\* C1: a non-owner whose membership row is unaccepted is denied with 403 by
\* requireCollectionRole for every allowed-role set, and every mutation of the
\* collection service they attempt on that collection returns 403 and leaves
\* the store as it was.
C1_UnacceptedMemberDenied ==
  \A c \in collections : \A u \in Users :
    PendingOn(c, u) =>
      /\ \A allowed \in SUBSET CollectionRole :
            requireCollectionRole(DB, c.id, u, allowed) = 403
      /\ \A data \in UpdateCollectionInputs : Unchanged(403, updateById(DB, c.id, data, u))
      /\ Unchanged(403, deleteById(DB, c.id, u))
      /\ \A m \in AnyMediaId : \A p \in Positions :
            Unchanged(403, addMediaToCollection(DB, c.id, m, p, u))
      /\ \A row \in AnyCollectionMediaId :
            /\ \A data \in UpdateCollectionMediaInputs :
                  Unchanged(403, updateCollectionMedia(DB, c.id, row, data, u))
            /\ Unchanged(403, removeMediaFromCollection(DB, c.id, row, u))
      /\ \A target \in Users \cup {GhostUser} : \A role \in CollectionRole :
            Unchanged(403, addMemberToCollection(DB, c.id, target, role, u))
      /\ \A row \in AnyCollectionUserId :
            /\ \A data \in UpdateCollectionMemberInputs :
                  Unchanged(403, updateCollectionMember(DB, c.id, row, data, u))
            /\ Unchanged(403, removeMemberFromCollection(DB, c.id, row, u))

\* An invited COLLABORATOR who has not answered is refused the insert of an
\* existing media that is not in the collection yet.
C1_Witness ==
  \E c \in collections : \E u \in Users : \E m \in media :
    /\ PendingOn(c, u)
    /\ \E row \in CollectionUserByPair(DB, c.id, u) : row.role = COLLABORATOR
    /\ CollectionMediaByPair(DB, c.id, m.id) = {}
    /\ addMediaToCollection(DB, c.id, m.id, 0, u).status = 403

\* C2: getById returns the collection, and the list without filter includes
\* it, exactly when it is PUBLIC, or the caller owns it, or the caller has an
\* accepted membership row on it; no filter makes a list include any other.
C2_CollectionReadIff ==
  \A caller \in Callers :
    /\ \A id \in AnyCollectionId :
          getById(DB, id, caller) = {c \in collections : c.id = id /\ Readable(c, caller)}
    /\ listCollectionsWhere(DB, NoQuery, caller) = {c \in collections : Readable(c, caller)}
    /\ \A query \in CollectionQueries :
          listCollectionsWhere(DB, query, caller) \subseteq {c \in collections : Readable(c, caller)}

\* A PRIVATE collection with a pending invitation: hidden from the invited
\* user and from the anonymous caller, returned to its owner.
C2_Witness ==
  \E c \in collections : \E u \in Users :
    /\ c.visibility = PRIVATE
    /\ PendingOn(c, u)
    /\ getById(DB, c.id, u) = {}
    /\ getById(DB, c.id, NoUser) = {}
    /\ c \notin listCollectionsWhere(DB, NoQuery, u)
    /\ getById(DB, c.id, c.ownerId) = {c}

\* C3: mediaService.getById returns the media, and the list without filter
\* includes it, exactly when some collection holding it is readable by the
\* caller (PUBLIC, owned, or accepted membership).
C3_MediaReadIff ==
  \A caller \in Callers : \A m \in media :
    LET readable ==
          \E link \in collectionMedia : \E c \in collections :
            link.mediaId = m.id /\ link.collectionId = c.id /\ Readable(c, caller)
    IN  /\ (mediaGetById(DB, m.id, caller) # {}) <=> readable
        /\ (m \in listMediaWhere(DB, NoQuery, caller)) <=> readable

\* C4: on a collection id that does not exist requireCollectionRole answers
\* 404 for every caller and allowed-role set, and every role-gated operation
\* returns 404 and leaves the store as it was.
C4_MissingCollectionIsNotFound ==
  \A id \in AnyCollectionId : \A u \in Users :
    CollectionById(DB, id) = {} =>
      /\ \A allowed \in SUBSET CollectionRole :
            requireCollectionRole(DB, id, u, allowed) = 404
      /\ \A data \in UpdateCollectionInputs : Unchanged(404, updateById(DB, id, data, u))
      /\ Unchanged(404, deleteById(DB, id, u))
      /\ \A m \in AnyMediaId : \A p \in Positions :
            Unchanged(404, addMediaToCollection(DB, id, m, p, u))
      /\ \A row \in AnyCollectionMediaId :
            /\ \A data \in UpdateCollectionMediaInputs :
                  Unchanged(404, updateCollectionMedia(DB, id, row, data, u))
            /\ Unchanged(404, removeMediaFromCollection(DB, id, row, u))
      /\ \A target \in Users \cup {GhostUser} : \A role \in CollectionRole :
            Unchanged(404, addMemberToCollection(DB, id, target, role, u))
      /\ \A row \in AnyCollectionUserId :
            /\ \A data \in UpdateCollectionMemberInputs :
                  Unchanged(404, updateCollectionMember(DB, id, row, data, u))
            /\ Unchanged(404, removeMemberFromCollection(DB, id, row, u))
      /\ \A data \in MediaInputs : Unchanged(404, createMedia(DB, data, u, id, NoId))

\* A collection was created and deleted; a media it held is still there, and
\* deleting the collection again answers 404.
C4_Witness ==
  \E id \in CollectionIds : \E u \in Users :
    /\ id < nextId.collection
    /\ CollectionById(DB, id) = {}
    /\ media # {}
    /\ deleteById(DB, id, u).status = 404

\* C5: inviting a user who already has a membership row on the collection,
\* accepted or not, returns 400 and leaves the store (so the row's role and
\* accepted flag) as it was; once the owner has removed the row the same
\* invitation succeeds.
C5_ReinviteIsConflict ==
  \A c \in collections : \A u \in Users : \A row \in CollectionUserByPair(DB, c.id, u) :
    \A role \in CollectionRole :
      /\ Unchanged(400, addMemberToCollection(DB, c.id, u, role, c.ownerId))
      /\ LET removed == removeMemberFromCollection(DB, c.id, row.id, c.ownerId)
         IN  /\ removed.status = 200
             /\ addMemberToCollection(removed.db, c.id, u, role, c.ownerId).status = 201

\* One accepted and one pending row on a collection; inviting either user
\* again with another role is refused with 400.
C5_Witness ==
  \E c \in collections : \E a \in collectionUsers : \E b \in collectionUsers :
    /\ a.collectionId = c.id /\ a.accepted /\ a.role = COLLABORATOR
    /\ b.collectionId = c.id /\ ~b.accepted /\ b.role = READER
    /\ addMemberToCollection(DB, c.id, a.userId, READER, c.ownerId).status = 400
    /\ addMemberToCollection(DB, c.id, b.userId, OWNER, c.ownerId).status = 400

\* C6: answering an invitation whose row is already accepted returns 400 for
\* accept = true and for accept = false, and the row stays, accepted.
C6_AcceptedCannotRespond ==
  \A row \in collectionUsers : \A accept \in BOOLEAN :
    row.accepted =>
      Unchanged(400, respondToInvitation(DB, row.collectionId, row.userId, accept))

\* An accepted non-owner member tries to leave by rejecting, and is refused.
C6_Witness ==
  \E c \in collections : \E row \in collectionUsers :
    /\ row.collectionId = c.id /\ row.userId # c.ownerId /\ row.accepted
    /\ respondToInvitation(DB, c.id, row.userId, FALSE).status = 400
    /\ respondToInvitation(DB, c.id, row.userId, TRUE).status = 400

\* C7: rejecting a pending invitation deletes exactly that row; after it the
\* owner's invitation of the same user succeeds with a new pending row of the
\* role given, and a further answer of the user returns 404.
C7_RejectDeletesRow ==
  \A c \in collections : \A row \in collectionUsers :
    (row.collectionId = c.id /\ ~row.accepted) =>
      LET rejected == respondToInvitation(DB, c.id, row.userId, FALSE)
      IN  /\ rejected.status = 200
          /\ rejected.db = [DB EXCEPT !.collectionUsers = @ \ {row}]
          /\ CollectionUserByPair(rejected.db, c.id, row.userId) = {}
          /\ \A accept \in BOOLEAN :
                respondToInvitation(rejected.db, c.id, row.userId, accept).status = 404
          /\ \A role \in CollectionRole :
                LET again == addMemberToCollection(rejected.db, c.id, row.userId, role, c.ownerId)
                IN  /\ again.status = 201
                    /\ \E new \in CollectionUserByPair(again.db, c.id, row.userId) :
                          /\ CollectionUserByPair(again.db, c.id, row.userId) = {new}
                          /\ new.role = role /\ ~new.accepted /\ new.id # row.id

\* A pending invitation made after an earlier row of the collection was
\* deleted; its rejection succeeds and the next invitation is accepted.
C7_Witness ==
  \E c \in collections : \E row \in collectionUsers :
    /\ row.collectionId = c.id /\ ~row.accepted /\ row.userId # c.ownerId
    /\ row.id > 1 /\ Cardinality(collectionUsers) = 1
    /\ respondToInvitation(DB, c.id, row.userId, FALSE).status = 200
    /\ addMemberToCollection(respondToInvitation(DB, c.id, row.userId, FALSE).db,
                             c.id, row.userId, READER, c.ownerId).status = 201

\* C8: on a PRIVATE collection of owner O and for another user U without a
\* row: O's invitation of U as COLLABORATOR leaves a pending row and U's
\* getById finds nothing; U's acceptance makes the row accepted and getById
\* return the collection; and in every state where U holds an accepted
\* COLLABORATOR row, U adds any existing media not yet in the collection
\* (201) while U's update of the visibility returns 403 and changes nothing.
C8_CollaboratorScenario ==
  \A c \in collections : \A u \in Users \ {c.ownerId} :
    /\ (c.visibility = PRIVATE /\ CollectionUserByPair(DB, c.id, u) = {}) =>
          LET invited == addMemberToCollection(DB, c.id, u, COLLABORATOR, c.ownerId)
              answered == respondToInvitation(invited.db, c.id, u, TRUE)
          IN  /\ invited.status = 201
              /\ \E row \in CollectionUserByPair(invited.db, c.id, u) :
                    CollectionUserByPair(invited.db, c.id, u) = {row} /\ ~row.accepted
              /\ getById(invited.db, c.id, u) = {}
              /\ answered.status = 200
              /\ \E row \in CollectionUserByPair(answered.db, c.id, u) :
                    /\ CollectionUserByPair(answered.db, c.id, u) = {row}
                    /\ row.accepted /\ row.role = COLLABORATOR
              /\ getById(answered.db, c.id, u) = {c}
    /\ (\E row \in CollectionUserByPair(DB, c.id, u) : row.accepted /\ row.role = COLLABORATOR) =>
          /\ getById(DB, c.id, u) = {c}
          /\ \A m \in media : \A p \in Positions :
                CollectionMediaByPair(DB, c.id, m.id) = {} =>
                  LET added == addMediaToCollection(DB, c.id, m.id, p, u)
                  IN  /\ added.status = 201
                      /\ \E link \in CollectionMediaByPair(added.db, c.id, m.id) :
                            link.position = p
          /\ \A data \in UpdateCollectionInputs : Unchanged(403, updateById(DB, c.id, data, u))

\* U is an accepted COLLABORATOR of O's PRIVATE collection, a media exists
\* outside it: U's insert succeeds and U's update of the visibility is 403.
C8_Witness ==
  \E c \in collections : \E u \in Users \ {c.ownerId} : \E m \in media :
    /\ c.visibility = PRIVATE
    /\ \E row \in CollectionUserByPair(DB, c.id, u) : row.accepted /\ row.role = COLLABORATOR
    /\ CollectionMediaByPair(DB, c.id, m.id) = {}
    /\ addMediaToCollection(DB, c.id, m.id, 0, u).status = 201
    /\ updateById(DB, c.id, [visibility |-> PUBLIC], u).status = 403
    /\ getById(DB, c.id, u) = {c}

\* ------------------------------------------------- concurrent requests
\* addMediaToCollection, addMemberToCollection and createMedia as the
\* sequences of store calls they are: one step per await, any interleaving
\* of the steps of the requests in flight.  A request in flight keeps its
\* arguments and its position; a finished one keeps its HTTP status until
\* the response is sent.
Procs == {1, 2}

Req(op, pc, userId, collectionId, mediaId, memberUserId, target, status) ==
  [op |-> op, pc |-> pc, userId |-> userId, collectionId |-> collectionId,
   mediaId |-> mediaId, memberUserId |-> memberUserId, target |-> target,
   status |-> status]

Idle == Req("idle", "idle", NoUser, NoId, NoId, NoUser, NoId, 0)

At(p, op, pc) == reqs[p].op = op /\ reqs[p].pc = pc

Goto(p, pc) == reqs' = [reqs EXCEPT ![p].pc = pc]

Done(p, status) == reqs' = [reqs EXCEPT ![p].pc = "done", ![p].status = status]

ConcMediaInput == CHOOSE data \in MediaInputs : data.type = "FILM"

ConcRole == COLLABORATOR

\* A store the sequential service reaches: u1's PRIVATE collection 1, u2 its
\* accepted COLLABORATOR, media 1 created in the collection and taken out of
\* it again.
PreparedDB ==
  [collections |-> {[id |-> 1, ownerId |-> "u1", visibility |-> PRIVATE,
                     name |-> FilmsName, description |-> FilmsDescription,
                     tags |-> {TagA, TagB}]},
   media |-> {[id |-> 1, title |-> ConcMediaInput.title,
               description |-> ConcMediaInput.description, type |-> ConcMediaInput.type,
               tags |-> ConcMediaInput.tags, platforms |-> ConcMediaInput.platforms]},
   collectionMedia |-> {},
   collectionUsers |-> {[id |-> 1, collectionId |-> 1, userId |-> "u2",
                         role |-> COLLABORATOR, accepted |-> TRUE]},
   nextId |-> [collection |-> 2, media |-> 2, collectionMedia |-> 2, collectionUser |-> 2]]

InitConc ==
  /\ \E d \in {EmptyDB, PreparedDB} :
        /\ collections = d.collections
        /\ media = d.media
        /\ collectionMedia = d.collectionMedia
        /\ collectionUsers = d.collectionUsers
        /\ nextId = d.nextId
  /\ reqs = [p \in Procs |-> Idle]

\* Requests in flight may each create a collection and a media: the
\* concurrent model stops creating rows at its own bounds.
ConcWithinBounds(d) ==
  /\ d.nextId.collection <= MaxConcCollections + 1
  /\ d.nextId.media <= MaxConcMedia + 1
  /\ d.nextId.collectionMedia <= MaxCollectionMedia + 1
  /\ d.nextId.collectionUser <= MaxCollectionUsers + 1

StartAddMediaToCollection ==
  \E p \in Procs, userId \in Users, id \in CollectionIds, mediaId \in MediaIds :
    /\ reqs[p] = Idle
    /\ reqs' = [reqs EXCEPT ![p] =
                  Req("addMediaToCollection", "role", userId, id, mediaId, NoUser, NoId, 0)]
    /\ UNCHANGED dbvars

AddMediaRequireRole ==
  \E p \in Procs :
    /\ At(p, "addMediaToCollection", "role")
    /\ LET denied == requireCollectionRole(DB, reqs[p].collectionId, reqs[p].userId,
                                           {OWNER, COLLABORATOR})
       IN  IF denied # NoError THEN Done(p, denied) ELSE Goto(p, "media")
    /\ UNCHANGED dbvars

AddMediaFindMedia ==
  \E p \in Procs :
    /\ At(p, "addMediaToCollection", "media")
    /\ IF MediaById(DB, reqs[p].mediaId) = {} THEN Done(p, 404) ELSE Goto(p, "existing")
    /\ UNCHANGED dbvars

AddMediaFindExisting ==
  \E p \in Procs :
    /\ At(p, "addMediaToCollection", "existing")
    /\ IF CollectionMediaByPair(DB, reqs[p].collectionId, reqs[p].mediaId) # {}
         THEN Done(p, 400) ELSE Goto(p, "create")
    /\ UNCHANGED dbvars

AddMediaCreate ==
  \E p \in Procs :
    /\ At(p, "addMediaToCollection", "create")
    /\ LET r == addMediaToCollectionCreate(DB, reqs[p].collectionId, reqs[p].mediaId, 0)
       IN  /\ ConcWithinBounds(r.db)
           /\ Commit(r.db)
           /\ Done(p, r.status)

StartAddMemberToCollection ==
  \E p \in Procs, userId \in Users, id \in CollectionIds, memberUserId \in Users :
    /\ reqs[p] = Idle
    /\ reqs' = [reqs EXCEPT ![p] =
                  Req("addMemberToCollection", "role", userId, id, NoId, memberUserId, NoId, 0)]
    /\ UNCHANGED dbvars

AddMemberRequireRole ==
  \E p \in Procs :
    /\ At(p, "addMemberToCollection", "role")
    /\ LET denied == requireCollectionRole(DB, reqs[p].collectionId, reqs[p].userId, {OWNER})
       IN  IF denied # NoError THEN Done(p, denied) ELSE Goto(p, "user")
    /\ UNCHANGED dbvars

AddMemberFindUser ==
  \E p \in Procs :
    /\ At(p, "addMemberToCollection", "user")
    /\ IF reqs[p].memberUserId \notin Users THEN Done(p, 404) ELSE Goto(p, "existing")
    /\ UNCHANGED dbvars

AddMemberFindExisting ==
  \E p \in Procs :
    /\ At(p, "addMemberToCollection", "existing")
    /\ IF CollectionUserByPair(DB, reqs[p].collectionId, reqs[p].memberUserId) # {}
         THEN Done(p, 400) ELSE Goto(p, "create")
    /\ UNCHANGED dbvars

AddMemberCreate ==
  \E p \in Procs :
    /\ At(p, "addMemberToCollection", "create")
    /\ LET r == addMemberToCollectionCreate(DB, reqs[p].collectionId,
                                            reqs[p].memberUserId, ConcRole)
       IN  /\ ConcWithinBounds(r.db)
           /\ Commit(r.db)
           /\ Done(p, r.status)

StartCreateMedia ==
  \E p \in Procs, userId \in Users, id \in (1..MaxConcCollections) \cup {NoId} :
    /\ reqs[p] = Idle
    /\ reqs' = [reqs EXCEPT ![p] =
                  Req("createMedia", "collection", userId, id, NoId, NoUser, NoId, 0)]
    /\ UNCHANGED dbvars

\* getCollectionForCreate: the findUnique of the collection named, or the
\* findFirst of the caller's 'Default' collection.
CreateMediaFindCollection ==
  \E p \in Procs : \E pick \in DefaultPicks(DB, reqs[p].userId) :
    /\ At(p, "createMedia", "collection")
    /\ IF reqs[p].collectionId = NoId /\ DefaultCollections(DB, reqs[p].userId) = {}
         THEN Goto(p, "createDefault")
       ELSE LET found == getCollectionForCreate(DB, reqs[p].userId, reqs[p].collectionId, pick)
            IN  IF found.status # NoError THEN Done(p, found.status)
                ELSE reqs' = [reqs EXCEPT ![p].pc = "transaction", ![p].target = found.id]
    /\ UNCHANGED dbvars

\* getOrCreateDefaultCollection after a findFirst that found nothing.
CreateMediaCreateDefault ==
  \E p \in Procs :
    /\ At(p, "createMedia", "createDefault")
    /\ LET d == DefaultCollectionInsert(DB, reqs[p].userId)
       IN  /\ ConcWithinBounds(d)
           /\ Commit(d)
           /\ reqs' = [reqs EXCEPT ![p].pc = "transaction", ![p].target = DB.nextId.collection]

CreateMediaTransaction ==
  \E p \in Procs :
    /\ At(p, "createMedia", "transaction")
    /\ LET r == createMediaTransaction(DB, ConcMediaInput, reqs[p].target)
       IN  /\ ConcWithinBounds(r.db)
           /\ Commit(r.db)
           /\ reqs' = [reqs EXCEPT ![p].pc = "done", ![p].status = r.status,
                                   ![p].mediaId = IF r.status = 201 THEN DB.nextId.media ELSE NoId]

\* The transaction rejected by the store: nothing of it is committed.
CreateMediaTransactionRejected ==
  \E p \in Procs :
    /\ At(p, "createMedia", "transaction")
    /\ Done(p, 500)
    /\ UNCHANGED dbvars

\* The response leaves; the worker is free for the next request.
SendResponse ==
  \E p \in Procs :
    /\ reqs[p].pc = "done"
    /\ reqs' = [reqs EXCEPT ![p] = Idle]
    /\ UNCHANGED dbvars

\* deleteById while other requests are in flight.
ConcDeleteById ==
  \E userId \in Users, id \in CollectionIds :
    LET r == deleteById(DB, id, userId)
    IN  /\ r.status = 200
        /\ Commit(r.db)
        /\ UNCHANGED reqs

NextConc ==
  \/ StartAddMediaToCollection
  \/ AddMediaRequireRole
  \/ AddMediaFindMedia
  \/ AddMediaFindExisting
  \/ AddMediaCreate
  \/ StartAddMemberToCollection
  \/ AddMemberRequireRole
  \/ AddMemberFindUser
  \/ AddMemberFindExisting
  \/ AddMemberCreate
  \/ StartCreateMedia
  \/ CreateMediaFindCollection
  \/ CreateMediaCreateDefault
  \/ CreateMediaTransaction
  \/ CreateMediaTransactionRejected
  \/ SendResponse
  \/ ConcDeleteById

SpecConc == InitConc /\ [][NextConc]_vars

\* ------------------------------------------------- concurrency claims
Finished(p, op) == reqs # NoReqs /\ reqs[p].op = op /\ reqs[p].pc = "done"

SamePair(p, q) ==
  /\ reqs[p].collectionId = reqs[q].collectionId
  /\ reqs[p].mediaId = reqs[q].mediaId
  /\ reqs[p].memberUserId = reqs[q].memberUserId

PairRows(table, collectionId, field, value) ==
  {row \in table : row.collectionId = collectionId /\ row[field] = value}

\* C9: two authorized addMediaToCollection requests for one pair that is
\* not yet in the collection, in any interleaving of their steps: when both
\* have finished and the collection and the media are still there, one has
\* 201 and the other has 400, and the pair has exactly one row.
C9_OneCreatedOtherConflict ==
  \A p \in Procs, q \in Procs :
    ( /\ p # q
      /\ Finished(p, "addMediaToCollection")
      /\ Finished(q, "addMediaToCollection")
      /\ SamePair(p, q)
      /\ reqs[p].status = 201
      /\ reqs[q].status \notin {403, 404}
      /\ CollectionById(DB, reqs[p].collectionId) # {}
      /\ MediaById(DB, reqs[p].mediaId) # {} )
    => /\ reqs[q].status = 400
       /\ Cardinality(PairRows(collectionMedia, reqs[p].collectionId,
                               "mediaId", reqs[p].mediaId)) = 1

\* C10: after any interleaving of addMemberToCollection,
\* addMediaToCollection and createMedia there is at most one collectionMedia
\* row per (collectionId, mediaId) and at most one collectionUsers row per
\* (collectionId, userId), and two add requests in flight together for one
\* pair never both end with 201.
C10_AtMostOneRowPerPair ==
  /\ \A a \in collectionMedia, b \in collectionMedia :
        (a.collectionId = b.collectionId /\ a.mediaId = b.mediaId) => a = b
  /\ \A a \in collectionUsers, b \in collectionUsers :
        (a.collectionId = b.collectionId /\ a.userId = b.userId) => a = b
  /\ \A p \in Procs, q \in Procs :
        ( /\ p # q
          /\ reqs[p].op \in {"addMediaToCollection", "addMemberToCollection"}
          /\ reqs[p].op = reqs[q].op
          /\ reqs[p].pc = "done"
          /\ reqs[q].pc = "done"
          /\ SamePair(p, q) )
        => ~ (reqs[p].status = 201 /\ reqs[q].status = 201)

\* Both requests passed the existence check before either inserted; the
\* unique index let one insert through and refused the other.
C10_Witness ==
  \E p \in Procs, q \in Procs :
    /\ p # q
    /\ reqs[p].op \in {"addMediaToCollection", "addMemberToCollection"}
    /\ reqs[p].op = reqs[q].op
    /\ SamePair(p, q)
    /\ reqs[p].pc = "done" /\ reqs[p].status = 201
    /\ reqs[q].pc = "done" /\ reqs[q].status = 500
    /\ \/ Cardinality(PairRows(collectionMedia, reqs[p].collectionId,
                               "mediaId", reqs[p].mediaId)) = 1
       \/ Cardinality(PairRows(collectionUsers, reqs[p].collectionId,
                               "userId", reqs[p].memberUserId)) = 1


\* ------------------------------------------------- cascade on delete
\* Ids handed out so far whose collection is gone.
DeletedCollectionIds == {id \in 1..(nextId.collection - 1) : CollectionById(DB, id) = {}}

NoRowReferences(d, id) ==
  /\ \A row \in d.collectionMedia : row.collectionId # id
  /\ \A row \in d.collectionUsers : row.collectionId # id

\* C11: deleteById by the owner succeeds and leaves no collectionMedia row
\* and no collectionUsers row on the collection while every media row stays;
\* and for every collection deleted so far no row references it and
\* listCollectionMembers and listCollectionMedia answer 404 to every caller.
C11_DeleteCascades ==
  /\ \A c \in collections :
        LET r == deleteById(DB, c.id, c.ownerId)
        IN  /\ r.status = 200
            /\ CollectionById(r.db, c.id) = {}
            /\ NoRowReferences(r.db, c.id)
            /\ r.db.media = media
            /\ \A caller \in Callers :
                  /\ listCollectionMembers(r.db, c.id, caller) = 404
                  /\ listCollectionMedia(r.db, c.id, caller) = 404
  /\ \A id \in DeletedCollectionIds :
        /\ NoRowReferences(DB, id)
        /\ \A caller \in Callers :
              /\ listCollectionMembers(DB, id, caller) = 404
              /\ listCollectionMedia(DB, id, caller) = 404

\* A collection that held a media and had a member has been deleted; the
\* media is still there.
C11_Witness ==
  /\ DeletedCollectionIds # {}
  /\ media # {}
  /\ nextId.collectionMedia > 1
  /\ nextId.collectionUser > 1
  /\ collectionMedia = {}
  /\ collectionUsers = {}


\* ------------------------------------------------------------ pagination
\* listCollections and listMedia in full: where, orderBy, skip/take or
\* cursor, and the envelope.  Rows listed carry the createdAt column.  A
\* query is the filter parameters together with page, pageSize, sort, order
\* and cursor; an absent parameter is 0 (numbers, ids) or "" (sort, order).
DefaultPageSize == 20

NoSort == ""

\* Byte order of the characters used in names and titles.
Alphabet == <<" ", ",", "D", "E", "F", "U", "a", "b", "c", "d", "e", "f", "i", "n", "u">>

Code(ch) == CHOOSE i \in 1..Len(Alphabet) : Alphabet[i] = ch

RECURSIVE LexLess(_, _)
LexLess(s, t) ==
  IF t = <<>> THEN FALSE
  ELSE IF s = <<>> THEN TRUE
  ELSE IF Head(s) = Head(t) THEN LexLess(Tail(s), Tail(t))
  ELSE Code(Head(s)) < Code(Head(t))

KeyLess(a, b, sort) ==
  IF sort = "createdAt" THEN a.createdAt < b.createdAt ELSE LexLess(a[sort], b[sort])

\* ORDER BY sort order [, id ASC]: a sorts strictly before b.
RowBefore(a, b, sort, order, byId) ==
  LET before == IF order = "asc" THEN KeyLess(a, b, sort) ELSE KeyLess(b, a, sort)
      after == IF order = "asc" THEN KeyLess(b, a, sort) ELSE KeyLess(a, b, sort)
  IN  before \/ (byId /\ ~after /\ a.id < b.id)

\* The orders in which the database may return the rows: every arrangement
\* that respects ORDER BY; rows ORDER BY does not separate come in any order.
Orderings(rows, sort, order, byId) ==
  LET n == Cardinality(rows)
  IN  {seq \in [1..n -> rows] :
         /\ \A i \in 1..n, j \in 1..n : i # j => seq[i] # seq[j]
         /\ \A i \in 1..n, j \in 1..n :
               i < j => ~RowBefore(seq[j], seq[i], sort, order, byId)}

Min(a, b) == IF a < b THEN a ELSE b

\* Variant that answers a page beyond the last one with the last page.
SliceLastPage(seq, skip, take) ==
  IF seq # <<>> /\ skip >= Len(seq)
    THEN SubSeq(seq, ((Len(seq) - 1) \div take) * take + 1, Len(seq))
  ELSE SubSeq(seq, skip + 1, Min(skip + take, Len(seq)))

Slice(seq, skip, take) == SubSeq(seq, skip + 1, Min(skip + take, Len(seq)))

\* findMany({ where, orderBy, skip, take [, cursor] }): every result the
\* database may give.  With a cursor the rows are those ORDER BY does not
\* place before the cursor row; an unknown cursor gives no row.
FindMany(matching, table, sort, order, byId, cursor, skip, take) ==
  IF cursor = NoId
    THEN {Slice(seq, skip, take) : seq \in Orderings(matching, sort, order, byId)}
  ELSE IF \A row \in table : row.id # cursor THEN {<<>>}
  ELSE LET at == CHOOSE row \in table : row.id = cursor
           from == {row \in matching : ~RowBefore(row, at, sort, order, byId)}
       IN  {Slice(seq, skip, take) : seq \in Orderings(from, sort, order, byId)}

\* Math.ceil(total / pageSize) for total >= 0 and pageSize >= 1.
Ceil(total, pageSize) == (total + pageSize - 1) \div pageSize

\* URL query of a link: the parameters set, by name.
LinkParams(query, names) ==
  LET present == {k \in names :
                    /\ k \in DOMAIN query
                    /\ query[k] # (IF k \in {"tag", "tags", "platform", "platforms", "q"}
                                     THEN Null ELSE NoSort)}
  IN  [k \in present |-> query[k]]

WithParam(params, name, value) ==
  [k \in DOMAIN params \cup {name} |-> IF k = name THEN value ELSE params[k]]

CollectionLinkNames == {"tag", "tags", "q", "sort", "order"}

MediaLinkNames == {"type", "tag", "tags", "platform", "platforms", "q", "sort", "order"}

\* Links are sets: {} is null, {params} the link with these parameters.
PaginationLinks(names, query, page, pageSize, pages) ==
  LET buildLink(p) ==
        WithParam(WithParam(LinkParams(query, names), "page", p), "pageSize", pageSize)
  IN  [self |-> {buildLink(page)},
       next |-> IF page < pages THEN {buildLink(page + 1)} ELSE {},
       prev |-> IF page > 1 THEN {buildLink(page - 1)} ELSE {}]

CursorPaginationLinks(names, query, pageSize, nextCursor) ==
  LET queryParams == WithParam(LinkParams(query, names), "pageSize", pageSize)
  IN  [self |-> {IF query.cursor # NoId
                   THEN WithParam(queryParams, "cursor", query.cursor) ELSE queryParams},
       next |-> IF nextCursor = NoId THEN {}
                ELSE {WithParam(queryParams, "cursor", nextCursor)},
       prev |-> {}]

buildPaginationLinks(query, page, pageSize, pages) ==
  PaginationLinks(CollectionLinkNames, query, page, pageSize, pages)

buildCursorPaginationLinks(query, pageSize, nextCursor) ==
  CursorPaginationLinks(CollectionLinkNames, query, pageSize, nextCursor)

mediaBuildPaginationLinks(query, page, pageSize, pages) ==
  PaginationLinks(MediaLinkNames, query, page, pageSize, pages)

mediaBuildCursorPaginationLinks(query, pageSize, nextCursor) ==
  CursorPaginationLinks(MediaLinkNames, query, pageSize, nextCursor)

LastId(data) == IF data = <<>> THEN NoId ELSE data[Len(data)].id

NoLinks == [self |-> {}, next |-> {}, prev |-> {}]

\* The envelope of the cursor branch for one result of findMany, before its
\* links are built.
CursorPage(data, pageSize) ==
  LET hasMore == Len(data) > pageSize
      items == IF hasMore THEN SubSeq(data, 1, pageSize) ELSE data
      nextCursor == IF hasMore THEN LastId(items) ELSE NoId
  IN  [data |-> items, page |-> 1, pageSize |-> pageSize, total |-> 0, pages |-> 0,
       links |-> NoLinks, cursor |-> nextCursor]

\* The envelope of the offset branch for one result of findMany and count,
\* before its links are built.
OffsetPage(data, total, page, pageSize) ==
  [data |-> data, page |-> page, pageSize |-> pageSize, total |-> total,
   pages |-> Ceil(total, pageSize), links |-> NoLinks, cursor |-> LastId(data)]

\* listCollections: the set of envelopes the call may return.
listCollections(d, query, userId) ==
  LET pageSize == IF query.pageSize # 0 THEN query.pageSize ELSE DefaultPageSize
      sort == IF query.sort # NoSort THEN query.sort ELSE "createdAt"
      order == IF query.order # NoSort THEN query.order ELSE "desc"
      where == listCollectionsWhere(d, query, userId)
      page == IF query.page # 0 THEN query.page ELSE 1
      cursorPage(data) ==
        LET e == CursorPage(data, pageSize)
        IN  [e EXCEPT !.links = buildCursorPaginationLinks(query, pageSize, e.cursor)]
      offsetPage(data) ==
        LET e == OffsetPage(data, Cardinality(where), page, pageSize)
        IN  [e EXCEPT !.links = buildPaginationLinks(query, page, pageSize, e.pages)]
  IN  IF query.cursor # NoId
        THEN {cursorPage(data) :
                data \in FindMany(where, d.collections, sort, order, TRUE,
                                  query.cursor, 1, pageSize + 1)}
      ELSE {offsetPage(data) :
              data \in FindMany(where, d.collections, sort, order, TRUE,
                                NoId, (page - 1) * pageSize, pageSize)}

\* listMedia: orderBy has the sort column only.
listMedia(d, query, userId) ==
  LET pageSize == IF query.pageSize # 0 THEN query.pageSize ELSE DefaultPageSize
      sort == IF query.sort # NoSort THEN query.sort ELSE "createdAt"
      order == IF query.order # NoSort THEN query.order ELSE "desc"
      where == listMediaWhere(d, query, userId)
      page == IF query.page # 0 THEN query.page ELSE 1
      cursorPage(data) ==
        LET e == CursorPage(data, pageSize)
        IN  [e EXCEPT !.links = mediaBuildCursorPaginationLinks(query, pageSize, e.cursor)]
      offsetPage(data) ==
        LET e == OffsetPage(data, Cardinality(where), page, pageSize)
        IN  [e EXCEPT !.links = mediaBuildPaginationLinks(query, page, pageSize, e.pages)]
  IN  IF query.cursor # NoId
        THEN {cursorPage(data) :
                data \in FindMany(where, d.media, sort, order, FALSE,
                                  query.cursor, 1, pageSize + 1)}
      ELSE {offsetPage(data) :
              data \in FindMany(where, d.media, sort, order, FALSE,
                                NoId, (page - 1) * pageSize, pageSize)}


\* ------------------------------------------------- listing sessions
\* A client lists collections or media: a first request in offset mode, then
\* requests that follow the cursor returned.  The tables are drawn once and
\* stay as they are while the client pages.
MaxListRows == 3
MaxPageSize == 2
MaxPage == 3
MaxFetches == 4

OtherUser(u) == CHOOSE v \in Users : v # u

ListCollectionTemplates ==
  {[ownerId |-> "u1", visibility |-> PUBLIC, name |-> FilmsName,
    description |-> FilmsDescription, tags |-> {TagA, TagB}, createdAt |-> 1],
   [ownerId |-> "u1", visibility |-> PRIVATE, name |-> FilmsName,
    description |-> Null, tags |-> {TagA}, createdAt |-> 1],
   [ownerId |-> "u2", visibility |-> PRIVATE, name |-> DefaultName,
    description |-> DefaultDescription, tags |-> {}, createdAt |-> 2]}

ListMediaTemplates ==
  {[title |-> <<"D", "u">>, description |-> Null, type |-> "FILM",
    tags |-> {TagA}, platforms |-> {<<"n">>}, createdAt |-> 1],
   [title |-> <<"D", "u">>, description |-> <<"d", "u">>, type |-> "BOOK",
    tags |-> {TagB}, platforms |-> {}, createdAt |-> 1],
   [title |-> <<"f", "i">>, description |-> Null, type |-> "FILM",
    tags |-> {TagA, TagB}, platforms |-> {<<"n">>}, createdAt |-> 2]}

WithId(template, id) ==
  [k \in DOMAIN template \cup {"id"} |-> IF k = "id" THEN id ELSE template[k]]

\* Collection 1 has a pending invitation of the other user, collection 2 an
\* accepted READER.
ListMemberships(rows) ==
  {[id |-> c.id, collectionId |-> c.id, userId |-> OtherUser(c.ownerId),
    role |-> READER, accepted |-> (c.id = 2)] : c \in {row \in rows : row.id <= 2}}

\* Stores with up to MaxListRows collections and no media.
CollectionListings ==
  UNION {
    {LET rows == {WithId(choice[i], i) : i \in 1..n}
     IN  [collections |-> rows, media |-> {}, collectionMedia |-> {},
          collectionUsers |-> ListMemberships(rows),
          nextId |-> [collection |-> n + 1, media |-> 1, collectionMedia |-> 1,
                      collectionUser |-> 3]]
       : choice \in [1..n -> ListCollectionTemplates]}
    : n \in 0..MaxListRows}

\* Stores with two PRIVATE collections (u1's and u2's) and up to MaxListRows
\* media, each in one of them.
MediaListings ==
  LET rows == {WithId([ownerId |-> "u1", visibility |-> PRIVATE, name |-> FilmsName,
                       description |-> Null, tags |-> {TagA}, createdAt |-> 1], 1),
               WithId([ownerId |-> "u2", visibility |-> PRIVATE, name |-> DefaultName,
                       description |-> DefaultDescription, tags |-> {}, createdAt |-> 2], 2)}
  IN  UNION {
        {[collections |-> rows,
          media |-> {WithId(choice[i][1], i) : i \in 1..n},
          collectionMedia |-> {[id |-> i, collectionId |-> choice[i][2], mediaId |-> i,
                                position |-> 0] : i \in 1..n},
          collectionUsers |-> ListMemberships(rows),
          nextId |-> [collection |-> 3, media |-> n + 1, collectionMedia |-> n + 1,
                      collectionUser |-> 3]]
           : choice \in [1..n -> ListMediaTemplates \X {1, 2}]}
        : n \in 0..MaxListRows}

InitList ==
  /\ \E d \in CollectionListings \cup MediaListings :
        /\ collections = d.collections
        /\ media = d.media
        /\ collectionMedia = d.collectionMedia
        /\ collectionUsers = d.collectionUsers
        /\ nextId = d.nextId
  /\ reqs = NoReqs

\* Query strings of a listing client.
ListFilters(kind) ==
  IF kind = "collections"
    THEN {NoQuery, [NoQuery EXCEPT !.q = <<"F">>, !.tags = <<"a", ",", " ", "b">>]}
  ELSE {NoQuery, [NoQuery EXCEPT !.q = <<"d", "U">>, !.type = "FILM"]}

ListSorts(kind) == IF kind = "collections" THEN {"createdAt", "name"} ELSE {"createdAt", "title"}

ListQuery(filter, page, pageSize, sort, order, cursor) ==
  [k \in DOMAIN filter \cup {"page", "pageSize", "sort", "order", "cursor"} |->
     CASE k = "page" -> page
       [] k = "pageSize" -> pageSize
       [] k = "sort" -> sort
       [] k = "order" -> order
       [] k = "cursor" -> cursor
       [] OTHER -> filter[k]]

ListQueries(kind) ==
  {ListQuery(filter, page, pageSize, sort, order, NoId) :
     filter \in ListFilters(kind), page \in 1..MaxPage, pageSize \in 1..MaxPageSize,
     sort \in ListSorts(kind), order \in {"asc", "desc"}}

Ids(data) == [i \in 1..Len(data) |-> data[i].id]

Session(kind, query, userId, result, seen, fetches) ==
  [kind |-> kind, query |-> query, userId |-> userId, result |-> result,
   seen |-> seen, fetches |-> fetches]

\* GET /collections without cursor.
ListCollectionsPage ==
  /\ reqs = NoReqs
  /\ \E query \in ListQueries("collections"), userId \in Callers :
        \E result \in listCollections(DB, query, userId) :
          reqs' = <<Session("collections", query, userId, result, Ids(result.data), 1)>>
  /\ UNCHANGED dbvars

\* GET /collections?cursor= with the cursor of the page before.
ListCollectionsFollowCursor ==
  /\ reqs # NoReqs
  /\ reqs[1].kind = "collections"
  /\ reqs[1].result.cursor # NoId
  /\ reqs[1].fetches < MaxFetches
  /\ LET query == [reqs[1].query EXCEPT !.cursor = reqs[1].result.cursor]
     IN  \E result \in listCollections(DB, query, reqs[1].userId) :
           reqs' = <<Session("collections", query, reqs[1].userId, result,
                             reqs[1].seen \o Ids(result.data), reqs[1].fetches + 1)>>
  /\ UNCHANGED dbvars

\* GET /media without cursor.
ListMediaPage ==
  /\ reqs = NoReqs
  /\ \E query \in ListQueries("media"), userId \in Callers :
        \E result \in listMedia(DB, query, userId) :
          reqs' = <<Session("media", query, userId, result, Ids(result.data), 1)>>
  /\ UNCHANGED dbvars

\* GET /media?cursor= with the cursor of the page before.
ListMediaFollowCursor ==
  /\ reqs # NoReqs
  /\ reqs[1].kind = "media"
  /\ reqs[1].result.cursor # NoId
  /\ reqs[1].fetches < MaxFetches
  /\ LET query == [reqs[1].query EXCEPT !.cursor = reqs[1].result.cursor]
     IN  \E result \in listMedia(DB, query, reqs[1].userId) :
           reqs' = <<Session("media", query, reqs[1].userId, result,
                             reqs[1].seen \o Ids(result.data), reqs[1].fetches + 1)>>
  /\ UNCHANGED dbvars

NextList ==
  \/ ListCollectionsPage
  \/ ListCollectionsFollowCursor
  \/ ListMediaPage
  \/ ListMediaFollowCursor

SpecList == InitList /\ [][NextList]_vars


\* ------------------------------------------------- pagination claims
Listing == reqs # NoReqs /\ reqs[1].kind \in {"collections", "media"}

OffsetListing == Listing /\ reqs[1].query.cursor = NoId

CursorListing == Listing /\ reqs[1].query.cursor # NoId

Table(kind) == IF kind = "collections" THEN collections ELSE media

\* The read predicate as the specification words it, for either kind of row:
\* a media is readable when some collection holding it is.
Visible(kind, row, caller) ==
  IF kind = "collections" THEN Readable(row, caller)
  ELSE \E link \in collectionMedia : \E c \in collections :
         link.mediaId = row.id /\ link.collectionId = c.id /\ Readable(c, caller)

MatchesFilter(kind, query, row) ==
  IF kind = "collections"
    THEN MatchesCollectionWhere(buildWhereClause(query), row)
  ELSE MatchesMediaWhere(mediaBuildWhereClause(query), row)

\* Rows that match the filter and are visible to the caller.
MatchingVisible(kind, query, caller) ==
  {row \in Table(kind) : MatchesFilter(kind, query, row) /\ Visible(kind, row, caller)}

\* Rows the where clause of the list method selects.
Selected(kind, query, caller) ==
  IF kind = "collections" THEN listCollectionsWhere(DB, query, caller)
  ELSE listMediaWhere(DB, query, caller)

IsCeil(pages, n, size) == pages * size >= n /\ (pages - 1) * size < n /\ pages >= 0

\* C12: an offset-mode page over the N rows that match the filter and are
\* visible to the caller reports total = N and pages = ceil(N / pageSize),
\* has links.next exactly when page < pages and links.prev exactly when
\* page > 1.
C12_OffsetEnvelope ==
  OffsetListing =>
    LET s == reqs[1]
        n == Cardinality(MatchingVisible(s.kind, s.query, s.userId))
    IN  /\ s.result.total = n
        /\ IsCeil(s.result.pages, n, s.query.pageSize)
        /\ (s.result.links.next # {}) <=> (s.query.page < s.result.pages)
        /\ (s.result.links.prev # {}) <=> (s.query.page > 1)

\* The same for listCollections alone.
OffsetEnvelopeOfCollections ==
  (OffsetListing /\ reqs[1].kind = "collections") =>
    LET s == reqs[1]
        n == Cardinality(MatchingVisible(s.kind, s.query, s.userId))
    IN  /\ s.result.total = n
        /\ IsCeil(s.result.pages, n, s.query.pageSize)
        /\ (s.result.links.next # {}) <=> (s.query.page < s.result.pages)
        /\ (s.result.links.prev # {}) <=> (s.query.page > 1)

\* C13: an offset-mode request for a page beyond the last one is answered
\* (the call returns an envelope) with no item and no cursor, and with total
\* and pages equal to the count of the rows selected under the same filter
\* and its ceiling quotient by pageSize.
C13_PageBeyondLastIsEmpty ==
  (OffsetListing /\ reqs[1].query.page > reqs[1].result.pages) =>
    LET s == reqs[1]
        n == Cardinality(Selected(s.kind, s.query, s.userId))
    IN  /\ s.result.data = <<>>
        /\ s.result.cursor = NoId
        /\ s.result.total = n
        /\ IsCeil(s.result.pages, n, s.query.pageSize)
        /\ IF s.kind = "collections" THEN listCollections(DB, s.query, s.userId) # {}
           ELSE listMedia(DB, s.query, s.userId) # {}

\* Page 3 of three rows in pages of two, for collections or media.
C13_Witness ==
  /\ OffsetListing
  /\ reqs[1].query.page = 3
  /\ reqs[1].query.pageSize = 2
  /\ reqs[1].result.total = 3
  /\ reqs[1].result.pages = 2
  /\ reqs[1].result.data = <<>>

NoDuplicates(seq) == \A i \in DOMAIN seq, j \in DOMAIN seq : i # j => seq[i] # seq[j]

\* Page 1 of the same listing with a page size that covers every row.
WholeListing(s) ==
  LET query == [s.query EXCEPT !.cursor = NoId, !.page = 1, !.pageSize = MaxListRows + 1]
  IN  IF s.kind = "collections" THEN listCollections(DB, query, s.userId)
      ELSE listMedia(DB, query, s.userId)

\* Rows of the listing that its ORDER BY does not place before the cursor row.
FromCursor(s) ==
  LET sort == s.query.sort
      order == s.query.order
      at == CHOOSE row \in Table(s.kind) : row.id = s.query.cursor
  IN  {row \in Selected(s.kind, s.query, s.userId) :
         ~RowBefore(row, at, sort, order, s.kind = "collections")}

\* C14: a client that starts at page 1 and follows the cursor until it is
\* null has seen no id twice and has seen the rows of one whole offset fetch,
\* in its order; a cursor-mode page has a cursor exactly when more than
\* pageSize rows come after the cursor row, and has total = 0, pages = 0 and
\* no prev link.
C14_CursorTraversal ==
  /\ (Listing /\ reqs[1].query.page = 1) => NoDuplicates(reqs[1].seen)
  /\ (Listing /\ reqs[1].query.page = 1 /\ reqs[1].result.cursor = NoId) =>
        \E whole \in WholeListing(reqs[1]) : reqs[1].seen = Ids(whole.data)
  /\ CursorListing =>
        /\ (reqs[1].result.cursor # NoId)
              <=> (Cardinality(FromCursor(reqs[1])) - 1 > reqs[1].query.pageSize)
        /\ reqs[1].result.total = 0
        /\ reqs[1].result.pages = 0
        /\ reqs[1].result.links.prev = {}

\* The same for listCollections alone.
CursorTraversalOfCollections ==
  reqs # NoReqs /\ reqs[1].kind = "collections" => C14_CursorTraversal

\* C15: every row a list request returns, for every filter and in either
\* mode, is visible to the caller.
C15_ListedRowsAreVisible ==
  Listing =>
    \A i \in DOMAIN reqs[1].result.data :
      Visible(reqs[1].kind, reqs[1].result.data[i], reqs[1].userId)

\* The same for listCollections alone.
ListedCollectionsAreVisible ==
  (Listing /\ reqs[1].kind = "collections") => C15_ListedRowsAreVisible


\* ------------------------------------------------- default collection
\* createMedia requests without collectionId that answered 201 and whose
\* media and target collection are still in the store.
CreatedInDefault(p) ==
  /\ Finished(p, "createMedia")
  /\ reqs[p].collectionId = NoId
  /\ reqs[p].status = 201
  /\ MediaById(DB, reqs[p].mediaId) # {}
  /\ CollectionById(DB, reqs[p].target) # {}

\* C16: concurrent first-time createMedia requests of one user without
\* collectionId leave at most one 'Default' collection owned by that user, it
\* is PRIVATE, and every media they created is linked to that one collection.
C16_SingleDefaultCollection ==
  reqs # NoReqs =>
    /\ \A userId \in Users :
         /\ Cardinality(DefaultCollections(DB, userId)) <= 1
         /\ \A c \in DefaultCollections(DB, userId) : c.visibility = PRIVATE
    /\ \A p \in Procs :
         CreatedInDefault(p) =>
           /\ DefaultCollections(DB, reqs[p].userId) = CollectionById(DB, reqs[p].target)
           /\ CollectionMediaByPair(DB, reqs[p].target, reqs[p].mediaId) # {}

\* The parts of C16 the code does keep: every 'Default' collection is PRIVATE
\* and owned by the user it was created for, and a media created without
\* collectionId is linked to a 'Default' collection of its creator.
DefaultCollectionsArePrivateAndLinked ==
  reqs # NoReqs =>
    /\ \A userId \in Users :
         \A c \in DefaultCollections(DB, userId) : c.visibility = PRIVATE
    /\ \A p \in Procs :
         CreatedInDefault(p) =>
           /\ CollectionById(DB, reqs[p].target) \subseteq DefaultCollections(DB, reqs[p].userId)
           /\ CollectionMediaByPair(DB, reqs[p].target, reqs[p].mediaId) # {}


\* ------------------------------------------------- atomic media creation
SameRows(d) ==
  /\ d.collections = collections
  /\ d.media = media
  /\ d.collectionMedia = collectionMedia
  /\ d.collectionUsers = collectionUsers

\* The collection createMedia is to link the new media to.
IntendedCollections(d, userId, collectionId) ==
  IF collectionId # NoId THEN CollectionById(d, collectionId)
  ELSE DefaultCollections(d, userId)

\* A createMedia that answered 201 added one media and linked it to its
\* intended collection.
CreatedAndLinked(r, userId, collectionId) ==
  \E m \in r.db.media \ media :
    /\ r.db.media = media \cup {m}
    /\ \E c \in IntendedCollections(r.db, userId, collectionId) :
          CollectionMediaByPair(r.db, c.id, m.id) # {}

\* C17: createMedia is atomic over the default-collection get-or-create, the
\* media insert and the first link: a call that fails leaves the rows of the
\* store exactly as before it (no new media, no new link, no newly created
\* 'Default' collection), and a call that succeeds has linked the media it
\* created to its intended collection.
C17_CreateMediaIsAtomic ==
  reqs = NoReqs =>
    \A userId \in Users, data \in MediaInputs, id \in AnyCollectionId \cup {NoId} :
      \A pick \in DefaultPicks(DB, userId) :
        \A r \in createMediaOutcomes(DB, data, userId, id, pick) :
          IF r.status = 201 THEN CreatedAndLinked(r, userId, id)
          ELSE SameRows(r.db)

\* What the code does keep: the media insert and the link are one
\* transaction, so a failed call adds no media and no link, and a successful
\* one has linked its media.
MediaAndLinkAreAtomic ==
  reqs = NoReqs =>
    \A userId \in Users, data \in MediaInputs, id \in AnyCollectionId \cup {NoId} :
      \A pick \in DefaultPicks(DB, userId) :
        \A r \in createMediaOutcomes(DB, data, userId, id, pick) :
          IF r.status = 201 THEN CreatedAndLinked(r, userId, id)
          ELSE r.db.media = media /\ r.db.collectionMedia = collectionMedia


\* ------------------------------------------------- owner-only operations
\* The five owner-only operations of the collection service, called by
\* caller u on collection id, all answer status and leave the store as it is.
OwnerOnlyOperationsAnswer(status, id, u) ==
  /\ \A data \in UpdateCollectionInputs : Unchanged(status, updateById(DB, id, data, u))
  /\ Unchanged(status, deleteById(DB, id, u))
  /\ \A target \in Users \cup {GhostUser} : \A role \in CollectionRole :
        Unchanged(status, addMemberToCollection(DB, id, target, role, u))
  /\ \A row \in AnyCollectionUserId :
        /\ \A data \in UpdateCollectionMemberInputs :
              Unchanged(status, updateCollectionMember(DB, id, row, data, u))
        /\ Unchanged(status, removeMemberFromCollection(DB, id, row, u))

\* C18: updateById, deleteById, addMemberToCollection, updateCollectionMember
\* and removeMemberFromCollection succeed only for the owner of the
\* collection: every other authenticated caller, whatever membership row that
\* caller holds, gets Forbidden and the store does not change.
C18_OwnerOnlyOperations ==
  \A c \in collections : \A u \in Users :
    u # c.ownerId => OwnerOnlyOperationsAnswer(403, c.id, u)

\* What the code does keep: a caller who is neither the owner nor the holder
\* of an accepted membership of role OWNER gets Forbidden.
OwnerOnlyUnlessOwnerMember ==
  \A c \in collections : \A u \in Users :
    /\ u # c.ownerId
    /\ ~\E row \in CollectionUserByPair(DB, c.id, u) : row.accepted /\ row.role = OWNER
    => OwnerOnlyOperationsAnswer(403, c.id, u)


\* ------------------------------------------------- existence leakage
\* The mutation operations on collection id, called by caller u, all answer
\* status and leave the store as it is.
MutationsAnswer(status, id, u) ==
  /\ OwnerOnlyOperationsAnswer(status, id, u)
  /\ \A m \in AnyMediaId : \A p \in Positions :
        Unchanged(status, addMediaToCollection(DB, id, m, p, u))
  /\ \A row \in AnyCollectionMediaId :
        /\ \A data \in UpdateCollectionMediaInputs :
              Unchanged(status, updateCollectionMedia(DB, id, row, data, u))
        /\ Unchanged(status, removeMediaFromCollection(DB, id, row, u))

Invisible(c, u) == c.visibility = PRIVATE /\ ~Readable(c, u)

\* C19: an authenticated caller to whom an existing PRIVATE collection is
\* invisible (not its owner, no accepted membership) gets 404 from every
\* mutation on it, the answer a collection id that does not exist gets.
C19_InvisibleCollectionIsNotFound ==
  \A c \in collections : \A u \in Users :
    Invisible(c, u) => MutationsAnswer(404, c.id, u)

\* What the code does answer: Forbidden, with no change of the store.
InvisibleCollectionIsForbidden ==
  \A c \in collections : \A u \in Users :
    Invisible(c, u) => MutationsAnswer(403, c.id, u)


\* ------------------------------------------------- update endpoints
EmptyBody == [wellFormed |-> TRUE, data |-> EmptyPayload]

\* C20: every update endpoint (PATCH collection, PATCH collection media,
\* PATCH collection member, PATCH media) answers 400 to an authenticated
\* caller whose payload has no field and changes no state, and answers 401
\* to a caller without a session whatever the payload and the target.
C20_EmptyPayloadAndNoSession ==
  /\ \A u \in Users : \A id \in AnyCollectionId :
        /\ Unchanged(400, patchCollection(DB, u, id, EmptyBody))
        /\ \A row \in AnyCollectionMediaId :
              Unchanged(400, patchCollectionMedia(DB, u, id, row, EmptyBody))
        /\ \A row \in AnyCollectionUserId :
              Unchanged(400, patchCollectionMember(DB, u, id, row, EmptyBody))
  /\ \A u \in Users : \A id \in AnyMediaId :
        Unchanged(400, patchMedia(DB, u, id, EmptyBody))
  /\ \A id \in AnyCollectionId :
        /\ \A body \in Bodies(UpdateCollectionInputs) :
              Unchanged(401, patchCollection(DB, NoUser, id, body))
        /\ \A row \in AnyCollectionMediaId : \A body \in Bodies(UpdateCollectionMediaInputs) :
              Unchanged(401, patchCollectionMedia(DB, NoUser, id, row, body))
        /\ \A row \in AnyCollectionUserId : \A body \in Bodies(UpdateCollectionMemberInputs) :
              Unchanged(401, patchCollectionMember(DB, NoUser, id, row, body))
  /\ \A id \in AnyMediaId : \A body \in Bodies(UpdateMediaInputs) :
        Unchanged(401, patchMedia(DB, NoUser, id, body))

\* What the code does keep: PATCH collection and PATCH media answer 400 to
\* an empty payload, and the four routes answer 401 to a caller without a
\* session whose body passed the validator; none changes the store.
EmptyPayloadAndNoSessionAsChecked ==
  /\ \A u \in Users : \A id \in AnyCollectionId :
        Unchanged(400, patchCollection(DB, u, id, EmptyBody))
  /\ \A u \in Users : \A id \in AnyMediaId :
        Unchanged(400, patchMedia(DB, u, id, EmptyBody))
  /\ \A id \in AnyCollectionId :
        /\ \A body \in Bodies(UpdateCollectionInputs) :
              body.wellFormed => Unchanged(401, patchCollection(DB, NoUser, id, body))
        /\ \A row \in AnyCollectionMediaId : \A body \in Bodies(UpdateCollectionMediaInputs) :
              body.wellFormed =>
                Unchanged(401, patchCollectionMedia(DB, NoUser, id, row, body))
        /\ \A row \in AnyCollectionUserId : \A body \in Bodies(UpdateCollectionMemberInputs) :
              body.wellFormed =>
                Unchanged(401, patchCollectionMember(DB, NoUser, id, row, body))
  /\ \A id \in AnyMediaId : \A body \in Bodies(UpdateMediaInputs) :
        body.wellFormed => Unchanged(401, patchMedia(DB, NoUser, id, body))

\* An empty PATCH of a collection-media row or of a membership row by the
\* owner is answered 200.
EmptyPatchAnswered200 ==
  \E c \in collections :
    /\ \E row \in collectionMedia :
          row.collectionId = c.id /\
          Unchanged(200, patchCollectionMedia(DB, c.ownerId, c.id, row.id, EmptyBody))
    /\ \E row \in collectionUsers :
          row.collectionId = c.id /\
          Unchanged(200, patchCollectionMember(DB, c.ownerId, c.id, row.id, EmptyBody))


\* ------------------------------------------------- role capabilities
AcceptedAs(c, u, role) ==
  \E row \in CollectionUserByPair(DB, c.id, u) : row.accepted /\ row.role = role

\* Caller u reads collection c, its media list and each media linked to it.
ReadsCollectionAndMedia(c, u) ==
  /\ getById(DB, c.id, u) = {c}
  /\ listCollectionMedia(DB, c.id, u) = 200
  /\ \A m \in media :
        CollectionMediaByPair(DB, c.id, m.id) # {} => m \in mediaGetById(DB, m.id, u)

\* C21: a non-owner with an accepted COLLABORATOR membership reads the
\* collection and adds, updates and removes its media, and gets Forbidden on
\* updating or deleting the collection and on adding, updating or removing
\* members; a non-owner with an accepted READER membership reads the
\* collection and its media and gets Forbidden on every mutation.
C21_RoleCapabilities ==
  \A c \in collections : \A u \in Users \ {c.ownerId} :
    /\ AcceptedAs(c, u, COLLABORATOR) =>
          /\ ReadsCollectionAndMedia(c, u)
          /\ \A m \in media : \A p \in Positions :
                CollectionMediaByPair(DB, c.id, m.id) = {} =>
                  LET added == addMediaToCollection(DB, c.id, m.id, p, u)
                  IN  /\ added.status = 201
                      /\ CollectionMediaByPair(added.db, c.id, m.id) # {}
          /\ \A link \in collectionMedia :
                link.collectionId = c.id =>
                  /\ \A data \in UpdateCollectionMediaInputs :
                        LET updated == updateCollectionMedia(DB, c.id, link.id, data, u)
                        IN  /\ updated.status = 200
                            /\ ApplyUpdate(link, data) \in updated.db.collectionMedia
                  /\ LET removed == removeMediaFromCollection(DB, c.id, link.id, u)
                     IN  /\ removed.status = 200
                         /\ CollectionMediaById(removed.db, link.id) = {}
          /\ OwnerOnlyOperationsAnswer(403, c.id, u)
    /\ AcceptedAs(c, u, READER) =>
          /\ ReadsCollectionAndMedia(c, u)
          /\ MutationsAnswer(403, c.id, u)

\* An accepted COLLABORATOR and, in another state, an accepted READER, each
\* of a PRIVATE collection that holds a media: the first removes the link,
\* the second is refused.
C21_Witness ==
  \E c \in collections : \E u \in Users \ {c.ownerId} : \E link \in collectionMedia :
    /\ c.visibility = PRIVATE
    /\ link.collectionId = c.id
    /\ \/ /\ AcceptedAs(c, u, COLLABORATOR)
          /\ removeMediaFromCollection(DB, c.id, link.id, u).status = 200
          /\ deleteById(DB, c.id, u).status = 403
       \/ /\ AcceptedAs(c, u, READER)
          /\ updateCollectionMedia(DB, c.id, link.id, [position |-> 1], u).status = 403
          /\ getById(DB, c.id, u) = {c}


\* ------------------------------------------------- invitation lifecycle
\* The stores one call of caller u to an operation of the collection service
\* can leave, over all its arguments.
StoresAfterCallBy(u) ==
  {createCollection(DB, data, u).db : data \in CollectionInputs}
  \cup {updateById(DB, id, data, u).db :
          id \in AnyCollectionId, data \in UpdateCollectionInputs}
  \cup {deleteById(DB, id, u).db : id \in AnyCollectionId}
  \cup {addMediaToCollection(DB, id, m, p, u).db :
          id \in AnyCollectionId, m \in AnyMediaId, p \in Positions}
  \cup {updateCollectionMedia(DB, id, row, data, u).db :
          id \in AnyCollectionId, row \in AnyCollectionMediaId,
          data \in UpdateCollectionMediaInputs}
  \cup {removeMediaFromCollection(DB, id, row, u).db :
          id \in AnyCollectionId, row \in AnyCollectionMediaId}
  \cup {addMemberToCollection(DB, id, target, role, u).db :
          id \in AnyCollectionId, target \in Users \cup {GhostUser}, role \in CollectionRole}
  \cup {updateCollectionMember(DB, id, row, data, u).db :
          id \in AnyCollectionId, row \in AnyCollectionUserId,
          data \in UpdateCollectionMemberInputs}
  \cup {removeMemberFromCollection(DB, id, row, u).db :
          id \in AnyCollectionId, row \in AnyCollectionUserId}
  \cup {respondToInvitation(DB, id, u, accept).db :
          id \in AnyCollectionId, accept \in BOOLEAN}

AcceptedIn(d, rowId) == \E r \in CollectionUserById(d, rowId) : r.accepted

\* C22: a pending membership row becomes accepted only through
\* respondToInvitation(C, U, true) called by the invited user U: that call
\* accepts it, and no call by the owner or by any other user does.
C22_OnlyInvitedUserAccepts ==
  \A row \in collectionUsers :
    ~row.accepted =>
      /\ AcceptedIn(respondToInvitation(DB, row.collectionId, row.userId, TRUE).db, row.id)
      /\ \A u \in Users \ {row.userId} :
            \A d \in StoresAfterCallBy(u) : ~AcceptedIn(d, row.id)

\* What the code does keep: a caller who is neither the invited user nor
\* allowed the owner-only operations of the collection accepts nothing.
OnlyInvitedUserOrOwnerAccepts ==
  \A row \in collectionUsers :
    ~row.accepted =>
      \A u \in Users \ {row.userId} :
        requireCollectionRole(DB, row.collectionId, u, {OWNER}) # NoError =>
          \A d \in StoresAfterCallBy(u) : ~AcceptedIn(d, row.id)


\* ------------------------------------------------- error propagation
\* The typed errors of the services.
TypedErrors == {400, 403, 404}

\* C23: a typed error (404, 403, 400) raised by a service operation reaches
\* the caller of every route with the same status, the PATCH and DELETE
\* routes of /media/:mediaId included, and is never turned into 500.
C23_TypedErrorsPassUnchanged ==
  \A u \in Users :
    /\ \A id \in AnyCollectionId :
          /\ \A data \in UpdateCollectionInputs :
                LET thrown == updateById(DB, id, data, u).status
                IN  thrown \in TypedErrors =>
                      patchCollection(DB, u, id, [wellFormed |-> TRUE, data |-> data]).status
                        = thrown
          /\ \A row \in AnyCollectionMediaId : \A data \in UpdateCollectionMediaInputs :
                LET thrown == updateCollectionMedia(DB, id, row, data, u).status
                IN  thrown \in TypedErrors =>
                      patchCollectionMedia(DB, u, id, row,
                                           [wellFormed |-> TRUE, data |-> data]).status = thrown
          /\ \A row \in AnyCollectionUserId : \A data \in UpdateCollectionMemberInputs :
                LET thrown == updateCollectionMember(DB, id, row, data, u).status
                IN  thrown \in TypedErrors =>
                      patchCollectionMember(DB, u, id, row,
                                            [wellFormed |-> TRUE, data |-> data]).status = thrown
    /\ \A id \in AnyMediaId :
          /\ \A data \in UpdateMediaInputs :
                LET thrown == mediaUpdateById(DB, id, data, u).status
                IN  thrown \in TypedErrors =>
                      patchMedia(DB, u, id, [wellFormed |-> TRUE, data |-> data]).status = thrown
          /\ LET thrown == mediaDeleteById(DB, id, u).status
             IN  thrown \in TypedErrors => deleteMedia(DB, u, id).status = thrown

\* What the code does keep: the PATCH routes of the collections pass the
\* typed errors of the collection service on unchanged.
CollectionRoutesPassTypedErrors ==
  \A u \in Users : \A id \in AnyCollectionId :
    /\ \A data \in UpdateCollectionInputs :
          patchCollection(DB, u, id, [wellFormed |-> TRUE, data |-> data]).status
            = updateById(DB, id, data, u).status
    /\ \A row \in AnyCollectionMediaId : \A data \in UpdateCollectionMediaInputs :
          patchCollectionMedia(DB, u, id, row, [wellFormed |-> TRUE, data |-> data]).status
            = updateCollectionMedia(DB, id, row, data, u).status
    /\ \A row \in AnyCollectionUserId : \A data \in UpdateCollectionMemberInputs :
          patchCollectionMember(DB, u, id, row, [wellFormed |-> TRUE, data |-> data]).status
            = updateCollectionMember(DB, id, row, data, u).status


\* ------------------------------------------------- storage exceptions
WellFormed(data) == [wellFormed |-> TRUE, data |-> data]

\* The answers of the update and delete routes to caller u over all their
\* arguments when a storage call of the service throws an exception that is
\* not a typed error.
AnswersOnStoreException(u) ==
  UNION (
    {OnStoreException(patchCollection(DB, u, id, WellFormed(data)), DB) :
        id \in AnyCollectionId, data \in UpdateCollectionInputs}
    \cup {OnStoreException(deleteCollection(DB, u, id), DB) : id \in AnyCollectionId}
    \cup {OnStoreException(patchCollectionMedia(DB, u, id, row, WellFormed(data)), DB) :
            id \in AnyCollectionId, row \in AnyCollectionMediaId,
            data \in UpdateCollectionMediaInputs}
    \cup {OnStoreException(deleteCollectionMedia(DB, u, id, row), DB) :
            id \in AnyCollectionId, row \in AnyCollectionMediaId}
    \cup {OnStoreException(patchCollectionMember(DB, u, id, row, WellFormed(data)), DB) :
            id \in AnyCollectionId, row \in AnyCollectionUserId,
            data \in UpdateCollectionMemberInputs}
    \cup {OnStoreException(deleteCollectionMember(DB, u, id, row), DB) :
            id \in AnyCollectionId, row \in AnyCollectionUserId}
    \cup {OnStoreException(patchMedia(DB, u, id, WellFormed(data)), DB) :
            id \in AnyMediaId, data \in UpdateMediaInputs}
    \cup {OnStoreException(deleteMedia(DB, u, id), DB) : id \in AnyMediaId})

\* C24: when a storage call fails with an exception that is not a typed
\* error inside updateById, deleteById, updateCollectionMedia,
\* removeMediaFromCollection, updateCollectionMember,
\* removeMemberFromCollection or the media updateById and deleteById, the
\* caller receives 500 and never 404, 403 or 400.
C24_StoreExceptionIsInternal ==
  \A u \in Users : \A r \in AnswersOnStoreException(u) : r.status = 500

\* What the code does keep: the store is as it was before the call.
StoreExceptionWritesNothing ==
  \A u \in Users : \A r \in AnswersOnStoreException(u) : r.db = DB


\* ---------------------------------------------------------------------------
\* Media mutations and pending invitations
\* ---------------------------------------------------------------------------

HoldersOf(mediaId) ==
  {c \in collections :
     \E link \in collectionMedia : link.mediaId = mediaId /\ link.collectionId = c.id}

\* The user owns no collection holding the media, and holds a membership row
\* on one of them, every such row being unaccepted.
OnlyPendingOnMedia(mediaId, u) ==
  /\ \A c \in HoldersOf(mediaId) : c.ownerId # u
  /\ \E c \in HoldersOf(mediaId) : CollectionUserByPair(DB, c.id, u) # {}
  /\ \A c \in HoldersOf(mediaId) :
        \A row \in CollectionUserByPair(DB, c.id, u) : ~row.accepted

PendingWriterOn(c, u) ==
  /\ c.ownerId # u
  /\ CollectionUserByPair(DB, c.id, u) # {}
  /\ \A row \in CollectionUserByPair(DB, c.id, u) :
        ~row.accepted /\ row.role \in {OWNER, COLLABORATOR}

\* C25: a user whose only membership on the collections holding a media is
\* unaccepted, and who owns none of them, is answered 403 by the media
\* service's updateById and deleteById, and by createMedia into a collection
\* where they hold only an unaccepted COLLABORATOR or OWNER row; nothing is
\* written.
C25_MediaMutationsNeedAcceptance ==
  \A u \in Users :
    /\ \A m \in media :
         OnlyPendingOnMedia(m.id, u) =>
           /\ \A data \in UpdateMediaInputs :
                 Unchanged(403, mediaUpdateById(DB, m.id, data, u))
           /\ Unchanged(403, mediaDeleteById(DB, m.id, u))
    /\ \A c \in collections :
         PendingWriterOn(c, u) =>
           \A data \in MediaInputs :
              Unchanged(403, createMedia(DB, data, u, c.id, NoId))

\* What does hold: a pending READER is denied every media mutation.
PendingReaderCannotMutateMedia ==
  \A u \in Users : \A m \in media :
    (/\ OnlyPendingOnMedia(m.id, u)
     /\ \A c \in HoldersOf(m.id) :
           \A row \in CollectionUserByPair(DB, c.id, u) : row.role = READER)
    => /\ \A data \in UpdateMediaInputs :
             Unchanged(403, mediaUpdateById(DB, m.id, data, u))
       /\ Unchanged(403, mediaDeleteById(DB, m.id, u))


\* ------------------------------------------------- acceptance is monotonic
StillAcceptedOrDeleted(d, rowId) ==
  \A r \in CollectionUserById(d, rowId) : r.accepted

\* C26: an accepted membership row is never set back to unaccepted: after any
\* call of any user to the collection service the row is still accepted or
\* has been deleted.
C26_AcceptedStaysAccepted ==
  \A row \in collectionUsers :
    row.accepted =>
      \A u \in Users : \A d \in StoresAfterCallBy(u) :
        StillAcceptedOrDeleted(d, row.id)

\* What the code does keep: only a caller allowed the owner-only operations
\* of the collection can set an accepted row back.
OnlyOwnerUnaccepts ==
  \A row \in collectionUsers :
    row.accepted =>
      \A u \in Users :
        requireCollectionRole(DB, row.collectionId, u, {OWNER}) # NoError =>
          \A d \in StoresAfterCallBy(u) : StillAcceptedOrDeleted(d, row.id)


\* ------------------------------------------------- stable ordering
\* The rows a listing selects, in the one order that ORDER BY sort order,
\* id ASC gives them.
InKeyThenIdOrder(s) ==
  CHOOSE seq \in Orderings(Selected(s.kind, s.query, s.userId),
                           s.query.sort, s.query.order, TRUE) : TRUE

\* The rows of one page come by sort key in the requested order, rows of
\* equal key by id ascending.
PageInKeyThenIdOrder(s) ==
  \A i \in 1..(Len(s.result.data) - 1) :
    RowBefore(s.result.data[i], s.result.data[i + 1], s.query.sort, s.query.order, TRUE)

\* The pages fetched so far, one after the other, are the rows that follow
\* the first (page - 1) * pageSize rows of that order: none twice, none
\* skipped.
PagesAreConsecutive(s) ==
  s.seen = Ids(Slice(InKeyThenIdOrder(s), (s.query.page - 1) * s.query.pageSize, Len(s.seen)))

\* C27: listCollections and listMedia, in offset and in cursor mode, return
\* the rows ordered by the sort key in the requested order and then by id
\* ascending, so that the pages of one query over unchanged data neither
\* share nor skip a row.
C27_StableOrdering ==
  Listing => PageInKeyThenIdOrder(reqs[1]) /\ PagesAreConsecutive(reqs[1])

\* The same for listCollections alone.
StableOrderingOfCollections ==
  (Listing /\ reqs[1].kind = "collections") =>
    PageInKeyThenIdOrder(reqs[1]) /\ PagesAreConsecutive(reqs[1])


\* ------------------------------------------------- rows of another collection
\* C28: updateCollectionMedia, removeMediaFromCollection,
\* updateCollectionMember and removeMemberFromCollection, called on a
\* collection by a caller allowed the operation there with the id of a row
\* that belongs to another collection, answer 404 and leave every row as it
\* was; whoever the caller is, the call writes nothing.
C28_RowOfAnotherCollection ==
  \A c \in collections : \A u \in Users :
    /\ \A link \in collectionMedia :
         link.collectionId # c.id =>
           LET allowed == requireCollectionRole(DB, c.id, u, {OWNER, COLLABORATOR}) = NoError
               removed == removeMediaFromCollection(DB, c.id, link.id, u)
           IN  /\ removed.db = DB
               /\ allowed => removed.status = 404
               /\ \A data \in UpdateCollectionMediaInputs :
                     LET updated == updateCollectionMedia(DB, c.id, link.id, data, u)
                     IN  updated.db = DB /\ (allowed => updated.status = 404)
    /\ \A row \in collectionUsers :
         row.collectionId # c.id =>
           LET allowed == requireCollectionRole(DB, c.id, u, {OWNER}) = NoError
               removed == removeMemberFromCollection(DB, c.id, row.id, u)
           IN  /\ removed.db = DB
               /\ allowed => removed.status = 404
               /\ \A data \in UpdateCollectionMemberInputs :
                     LET updated == updateCollectionMember(DB, c.id, row.id, data, u)
                     IN  updated.db = DB /\ (allowed => updated.status = 404)

\* Two collections, a media link and a membership row in one of them, and
\* the owner of the other naming these rows.
C28_Witness ==
  \E c \in collections : \E other \in collections :
    \E link \in collectionMedia : \E row \in collectionUsers :
      /\ c.id # other.id
      /\ link.collectionId = other.id
      /\ row.collectionId = other.id
      /\ removeMemberFromCollection(DB, c.id, row.id, c.ownerId).status = 404
      /\ removeMediaFromCollection(DB, c.id, link.id, c.ownerId).status = 404
      /\ updateCollectionMember(DB, c.id, row.id, [role |-> READER], c.ownerId).status = 404
      /\ updateCollectionMedia(DB, c.id, link.id, [position |-> 1], c.ownerId).status = 404


\* ------------------------------------------------- revocation in flight
\* addMediaToCollection, updateCollectionMedia and removeMediaFromCollection
\* of a member, step by step, while the owner removes the member or sets
\* their role to READER.  The store starts as PreparedDB or empty.
StartUpdateCollectionMedia ==
  \E p \in Procs, userId \in Users, id \in CollectionIds, link \in collectionMedia :
    /\ reqs[p] = Idle
    /\ reqs' = [reqs EXCEPT ![p] =
                  Req("updateCollectionMedia", "role", userId, id, NoId, NoUser, link.id, 0)]
    /\ UNCHANGED dbvars

UpdateCollectionMediaRequireRole ==
  \E p \in Procs :
    /\ At(p, "updateCollectionMedia", "role")
    /\ LET denied == requireCollectionRole(DB, reqs[p].collectionId, reqs[p].userId,
                                           {OWNER, COLLABORATOR})
       IN  IF denied # NoError THEN Done(p, denied) ELSE Goto(p, "existing")
    /\ UNCHANGED dbvars

UpdateCollectionMediaFindExisting ==
  \E p \in Procs :
    /\ At(p, "updateCollectionMedia", "existing")
    /\ IF \A link \in CollectionMediaById(DB, reqs[p].target) :
             link.collectionId # reqs[p].collectionId
         THEN Done(p, 404) ELSE Goto(p, "write")
    /\ UNCHANGED dbvars

\* prisma.collectionMedia.update: a row deleted in between makes it throw,
\* the service returns null and the route answers 404.
UpdateCollectionMediaWrite ==
  \E p \in Procs :
    /\ At(p, "updateCollectionMedia", "write")
    /\ IF CollectionMediaById(DB, reqs[p].target) = {}
         THEN Done(p, 404) /\ UNCHANGED dbvars
       ELSE /\ Commit([DB EXCEPT !.collectionMedia =
                         {IF link.id = reqs[p].target
                            THEN ApplyUpdate(link, [position |-> 1]) ELSE link : link \in @}])
            /\ Done(p, 200)

StartRemoveMediaFromCollection ==
  \E p \in Procs, userId \in Users, id \in CollectionIds, link \in collectionMedia :
    /\ reqs[p] = Idle
    /\ reqs' = [reqs EXCEPT ![p] =
                  Req("removeMediaFromCollection", "role", userId, id, NoId, NoUser, link.id, 0)]
    /\ UNCHANGED dbvars

RemoveMediaRequireRole ==
  \E p \in Procs :
    /\ At(p, "removeMediaFromCollection", "role")
    /\ LET denied == requireCollectionRole(DB, reqs[p].collectionId, reqs[p].userId,
                                           {OWNER, COLLABORATOR})
       IN  IF denied # NoError THEN Done(p, denied) ELSE Goto(p, "existing")
    /\ UNCHANGED dbvars

RemoveMediaFindExisting ==
  \E p \in Procs :
    /\ At(p, "removeMediaFromCollection", "existing")
    /\ IF \A link \in CollectionMediaById(DB, reqs[p].target) :
             link.collectionId # reqs[p].collectionId
         THEN Done(p, 404) ELSE Goto(p, "write")
    /\ UNCHANGED dbvars

\* prisma.collectionMedia.delete: a row deleted in between makes it throw,
\* the service returns false and the route answers 404.
RemoveMediaWrite ==
  \E p \in Procs :
    /\ At(p, "removeMediaFromCollection", "write")
    /\ IF CollectionMediaById(DB, reqs[p].target) = {}
         THEN Done(p, 404) /\ UNCHANGED dbvars
       ELSE /\ Commit([DB EXCEPT !.collectionMedia =
                         {link \in @ : link.id # reqs[p].target}])
            /\ Done(p, 200)

\* The owner's removeMemberFromCollection while other requests are in flight.
ConcRemoveMember ==
  \E userId \in Users, row \in collectionUsers :
    LET r == removeMemberFromCollection(DB, row.collectionId, row.id, userId)
    IN  /\ r.status = 200
        /\ Commit(r.db)
        /\ UNCHANGED reqs

\* The owner's updateCollectionMember to READER while other requests are in
\* flight.
ConcDowngradeMember ==
  \E userId \in Users, row \in collectionUsers :
    LET r == updateCollectionMember(DB, row.collectionId, row.id, [role |-> READER], userId)
    IN  /\ row.role # READER
        /\ r.status = 200
        /\ Commit(r.db)
        /\ UNCHANGED reqs

NextRevoke ==
  \/ StartAddMediaToCollection
  \/ AddMediaRequireRole
  \/ AddMediaFindMedia
  \/ AddMediaFindExisting
  \/ AddMediaCreate
  \/ StartUpdateCollectionMedia
  \/ UpdateCollectionMediaRequireRole
  \/ UpdateCollectionMediaFindExisting
  \/ UpdateCollectionMediaWrite
  \/ StartRemoveMediaFromCollection
  \/ RemoveMediaRequireRole
  \/ RemoveMediaFindExisting
  \/ RemoveMediaWrite
  \/ ConcRemoveMember
  \/ ConcDowngradeMember
  \/ SendResponse

SpecRevoke == InitConc /\ [][NextRevoke]_vars

\* Request p takes its last step and a collection_media row is written.
WritesCollectionMedia(p) ==
  /\ reqs[p].op \in {"addMediaToCollection", "updateCollectionMedia",
                     "removeMediaFromCollection"}
  /\ reqs[p].pc \in {"create", "write"}
  /\ reqs'[p].pc = "done"
  /\ collectionMedia' # collectionMedia

\* C29: whatever the interleaving with the owner's removeMemberFromCollection
\* or role downgrade, a request of addMediaToCollection,
\* updateCollectionMedia or removeMediaFromCollection writes its row in a
\* state where its caller is the owner of the collection or holds an
\* accepted OWNER or COLLABORATOR membership of it.
C29_WritesOnlyWhileAuthorized ==
  [][\A p \in Procs :
       WritesCollectionMedia(p) =>
         requireCollectionRole(DB, reqs[p].collectionId, reqs[p].userId,
                               {OWNER, COLLABORATOR}) = NoError]_vars


\* ------------------------------------------------- media of private collections
\* The media is held, and only by PRIVATE collections of which the user is
\* neither the owner nor an accepted member.
OutOfReach(mediaId, u) ==
  /\ HoldersOf(mediaId) # {}
  /\ \A c \in HoldersOf(mediaId) :
        /\ c.visibility = PRIVATE
        /\ c.ownerId # u
        /\ \A row \in CollectionUserByPair(DB, c.id, u) : ~row.accepted

\* The stores after the user creates a collection of their own and adds the
\* media to it.
AfterAddingToOwnCollection(mediaId, u) ==
  {addMediaToCollection(createCollection(DB, data, u).db, DB.nextId.collection,
                        mediaId, p, u).db :
     data \in CollectionInputs, p \in Positions}

\* C30: a user cannot, by operations of their own, gain access to a media
\* held only by PRIVATE collections of which they are neither owner nor
\* accepted member: after creating a collection and calling
\* addMediaToCollection with the media, the media service's getById still
\* returns nothing to them, its updateById and deleteById still fail, and no
\* collection_media row of the other collections is removed.
C30_NoSelfGrantedMediaAccess ==
  \A m \in media : \A u \in Users :
    OutOfReach(m.id, u) =>
      \A d \in AfterAddingToOwnCollection(m.id, u) :
        LET deleted == mediaDeleteById(d, m.id, u)
        IN  /\ mediaGetById(d, m.id, u) = {}
            /\ \A data \in UpdateMediaInputs : mediaUpdateById(d, m.id, data, u).status # 200
            /\ deleted.status # 200
            /\ \A link \in collectionMedia :
                  link.mediaId = m.id => link \in deleted.db.collectionMedia

\* What the code does keep: without a collection of their own holding the
\* media, a user with no membership row on its holders is denied.
StrangerIsDenied ==
  \A m \in media : \A u \in Users :
    (/\ OutOfReach(m.id, u)
     /\ \A c \in HoldersOf(m.id) : CollectionUserByPair(DB, c.id, u) = {})
    => /\ mediaGetById(DB, m.id, u) = {}
       /\ \A data \in UpdateMediaInputs : Unchanged(403, mediaUpdateById(DB, m.id, data, u))
       /\ Unchanged(403, mediaDeleteById(DB, m.id, u))

====
